---------------------------- MODULE Spec2Model ----------------------------
(***************************************************************************)
(* Authentication core of the Next.js/Django boilerplate server:           *)
(*   - AdvancedOTPDevice (two_factor/models.py): generate_token and         *)
(*     verify_token with cooldown, lockout and single use;                  *)
(*   - TrustedDevice (two_factor/models.py): remembered browsers;           *)
(*   - utils/blocked_ip.py: attempt counter and permanent IP block, with a  *)
(*     cache in front of the BlockedIP table;                               *)
(*   - the Login, ForceChangePassword and Verify2Fa views behind            *)
(*     IPBlockMiddleware.                                                   *)
(* Time is in whole seconds.  Requests are handled one at a time.           *)
(***************************************************************************)
EXTENDS Integers, Sequences, FiniteSets, TLC

VARIABLES
    now,              \* timezone.now(), in seconds
    DJANGO_SECRET_KEY, \* os.getenv("DJANGO_SECRET_KEY") of the server process
    users,            \* users table: user -> [has_changed_password, is_active]
    otp_devices,      \* AdvancedOTPDevice rows named "email_otp_device": user -> row or NoDevice
    trusted_devices,  \* trusted_devices table: a set of rows
    blocked_ips,      \* blocked_ips table: ip -> NoRecord or [is_blocked]
    cache,            \* Redis cache: key -> NoEntry or [value, expires]
    next_device_id,   \* how many secrets.token_urlsafe(32) identifiers were drawn
    response,         \* what the last call or request returned
    in_flight,        \* requests being handled concurrently: worker -> its position and locals
    hist              \* history of the OTP device calls (bookkeeping for the properties)

vars == <<now, DJANGO_SECRET_KEY, users, otp_devices, trusted_devices, blocked_ips, cache,
          next_device_id, response, in_flight, hist>>

-----------------------------------------------------------------------------
(* Bounds of the model *)

MaxTime == 600

NumCodes == 2

(* The codes secrets.choice can draw and a client can submit (6 digits). *)
Codes == 1..NumCodes

(* None of Python, for a nullable timestamp, ciphertext or code. *)
None == -1

-----------------------------------------------------------------------------
(* AdvancedOTPDevice *)

DEFAULT_MAX_FAILED_ATTEMPTS == 5
DEFAULT_COOLDOWN_MULTIPLIER == 2
CODE_VALID_FOR_SECONDS == 300
BASE_COOLDOWN == 60
RANDOM_WAIT_MIN == 5
RANDOM_WAIT_MAX == 15
MIN_LOCK_TIME == 300
MAX_LOCK_TIME == 600

(* random.randint(min_wait, max_wait) and random.randint(min_lock_time,     *)
(* max_lock_time): the two ends of each range.                               *)
RandomOffsets == {RANDOM_WAIT_MIN, RANDOM_WAIT_MAX}
RandomLockTimes == {MIN_LOCK_TIME, MAX_LOCK_TIME}

(* os.getenv("DJANGO_SECRET_KEY") when the variable is not set. *)
NoKey == "unset"

(* The key the server is deployed with, and the one after a rotation. *)
DeployedKey == "key-1"
SecretKeys == {DeployedKey, "key-2"}

(* _get_cipher returns a cipher, and raises ValueError when the variable is  *)
(* not set.                                                                  *)
HasCipher(secret_key) == secret_key # NoKey

(* Fernet: the ciphertext is not the plaintext; under the key it was made    *)
(* with it decrypts to the plaintext, under another key decrypt raises.      *)
Encrypt(secret_key, code) == <<"fernet", secret_key, code>>
CanDecrypt(secret_key, ciphertext) == HasCipher(secret_key) /\ ciphertext[2] = secret_key
Decrypt(secret_key, ciphertext) == ciphertext[3]

NoCiphertext == <<>>

Min(a, b) == IF a <= b THEN a ELSE b

RECURSIVE Pow(_, _)
Pow(b, e) == IF e = 0 THEN 1 ELSE b * Pow(b, e - 1)

(* A row as AdvancedOTPDevice.objects.get_or_create creates it. *)
NewOTPDevice ==
    [ otp_encrypted             |-> NoCiphertext,
      otp_created_at            |-> None,
      otp_expiry                |-> None,
      used                      |-> FALSE,
      failed_attempts           |-> 0,
      max_failed_attempts       |-> DEFAULT_MAX_FAILED_ATTEMPTS,
      last_request_time         |-> None,
      next_allowed_request_time |-> None,
      cooldown_multiplier       |-> DEFAULT_COOLDOWN_MULTIPLIER,
      lock_until                |-> None ]

(* generate_token is left by an exception (the ValueError of _get_cipher),   *)
(* which no caller catches: the request is answered 500.                     *)
Raised == [ error |-> TRUE, kind |-> "RAISED", status_code |-> 500,
            wait |-> 0, otp_code |-> None ]

(* The dict a device method returns. `wait` is the remaining (or imposed)   *)
(* number of seconds the message is built from.                              *)
Result(error, kind, status_code, wait, otp_code) ==
    [ error |-> error, kind |-> kind, status_code |-> status_code,
      wait |-> wait, otp_code |-> otp_code ]

(* generate_token_issue keeping an outstanding ciphertext instead of        *)
(* overwriting it (the new code is returned but the old one stays stored).   *)
generate_token_issue_keep_outstanding(self, t, code, random_offset, secret_key) ==
    IF ~HasCipher(secret_key)
    THEN [ self |-> self, result |-> Raised ]
    ELSE
    LET cooldown_seconds ==
            BASE_COOLDOWN * Pow(self.cooldown_multiplier, self.failed_attempts)
    IN  [ self   |-> [ self EXCEPT
                         !.otp_encrypted = IF @ = NoCiphertext THEN Encrypt(secret_key, code) ELSE @,
                         !.otp_created_at = t,
                         !.otp_expiry = t + CODE_VALID_FOR_SECONDS,
                         !.used = FALSE,
                         !.failed_attempts = 0,
                         !.last_request_time = t,
                         !.next_allowed_request_time =
                             t + cooldown_seconds + random_offset ],
          result |-> Result(FALSE, "GENERATED", 200, 0, code) ]

(* generate_token_issue without the random offset added to the cooldown. *)
generate_token_issue_no_jitter(self, t, code, random_offset, secret_key) ==
    IF ~HasCipher(secret_key)
    THEN [ self |-> self, result |-> Raised ]
    ELSE
    LET cooldown_seconds ==
            BASE_COOLDOWN * Pow(self.cooldown_multiplier, self.failed_attempts)
    IN  [ self   |-> [ self EXCEPT
                         !.otp_encrypted = Encrypt(secret_key, code),
                         !.otp_created_at = t,
                         !.otp_expiry = t + CODE_VALID_FOR_SECONDS,
                         !.used = FALSE,
                         !.failed_attempts = 0,
                         !.last_request_time = t,
                         !.next_allowed_request_time = t + cooldown_seconds ],
          result |-> Result(FALSE, "GENERATED", 200, 0, code) ]

(* generate_token, step 4 on: the code is drawn, encrypted and stored with  *)
(* the cooldown computed from failed_attempts as it is at that point.  When *)
(* _get_cipher raises, nothing has been saved.                               *)
generate_token_issue(self, t, code, random_offset, secret_key) ==
    IF ~HasCipher(secret_key)
    THEN [ self |-> self, result |-> Raised ]
    ELSE
    LET cooldown_seconds ==
            BASE_COOLDOWN * Pow(self.cooldown_multiplier, self.failed_attempts)
    IN  [ self   |-> [ self EXCEPT
                         !.otp_encrypted = Encrypt(secret_key, code),
                         !.otp_created_at = t,
                         !.otp_expiry = t + CODE_VALID_FOR_SECONDS,
                         !.used = FALSE,
                         !.failed_attempts = 0,
                         !.last_request_time = t,
                         !.next_allowed_request_time =
                             t + cooldown_seconds + random_offset ],
          result |-> Result(FALSE, "GENERATED", 200, 0, code) ]

(* generate_token that checks the lock before the cooldown. *)
generate_token_lock_first(self, t, code, random_offset, secret_key) ==
    LET unlocked == IF self.lock_until # None /\ t >= self.lock_until
                    THEN [self EXCEPT !.lock_until = None, !.failed_attempts = 0]
                    ELSE self
    IN  IF unlocked.lock_until # None /\ t < unlocked.lock_until
        THEN [ self   |-> self,
               result |-> Result(TRUE, "LOCKED", 423, unlocked.lock_until - t, None) ]
        ELSE IF self.next_allowed_request_time # None /\ t < self.next_allowed_request_time
        THEN [ self   |-> self,
               result |-> Result(TRUE, "RATE_LIMITED", 429,
                                 self.next_allowed_request_time - t, None) ]
        ELSE IF ~HasCipher(secret_key)
        THEN [ self |-> self, result |-> Raised ]
        ELSE generate_token_issue(unlocked, t, code, random_offset, secret_key)

(* generate_token that records the time of a request it rejects. *)
generate_token_stamping_rejections(self, t, code, random_offset, secret_key) ==
    IF self.next_allowed_request_time # None /\ t < self.next_allowed_request_time
    THEN [ self   |-> [self EXCEPT !.last_request_time = t],
           result |-> Result(TRUE, "RATE_LIMITED", 429,
                             self.next_allowed_request_time - t, None) ]
    ELSE
    LET unlocked == IF self.lock_until # None /\ t >= self.lock_until
                    THEN [self EXCEPT !.lock_until = None, !.failed_attempts = 0]
                    ELSE self
    IN  IF unlocked.lock_until # None /\ t < unlocked.lock_until
        THEN [ self   |-> [self EXCEPT !.last_request_time = t],
               result |-> Result(TRUE, "LOCKED", 423, unlocked.lock_until - t, None) ]
        ELSE IF ~HasCipher(secret_key)
        THEN [ self |-> self, result |-> Raised ]
        ELSE generate_token_issue(unlocked, t, code, random_offset, secret_key)

(* generate_token that never clears a lock: a device once locked stays so. *)
generate_token_locked_for_good(self, t, code, random_offset, secret_key) ==
    IF self.next_allowed_request_time # None /\ t < self.next_allowed_request_time
    THEN [ self   |-> self,
           result |-> Result(TRUE, "RATE_LIMITED", 429,
                             self.next_allowed_request_time - t, None) ]
    ELSE IF self.lock_until # None
    THEN [ self   |-> self,
           result |-> Result(TRUE, "LOCKED", 423, Min(0, self.lock_until - t), None) ]
    ELSE generate_token_issue(self, t, code, random_offset, secret_key)

(* generate_token at time t, drawing `code` and the random offset.          *)
(* Returns the row as saved and the returned dict.                           *)
generate_token(self, t, code, random_offset, secret_key) ==
    IF self.next_allowed_request_time # None /\ t < self.next_allowed_request_time
    THEN [ self   |-> self,
           result |-> Result(TRUE, "RATE_LIMITED", 429,
                             self.next_allowed_request_time - t, None) ]
    ELSE
    LET unlocked == IF self.lock_until # None /\ t >= self.lock_until
                    THEN [self EXCEPT !.lock_until = None, !.failed_attempts = 0]
                    ELSE self
    IN  IF unlocked.lock_until # None /\ t < unlocked.lock_until
        THEN [ self   |-> self,
               result |-> Result(TRUE, "LOCKED", 423, unlocked.lock_until - t, None) ]
        ELSE IF ~HasCipher(secret_key)
        THEN [ self |-> self, result |-> Raised ]
        ELSE generate_token_issue(unlocked, t, code, random_offset, secret_key)

(* verify_token_compare whose success branch is not saved. *)
verify_token_compare_unsaved(self, t, token, random_lock_time, secret_key) ==
    IF ~CanDecrypt(secret_key, self.otp_encrypted)
    THEN [ self |-> self, result |-> Result(TRUE, "INTERNAL", 0, 0, None) ]
    ELSE IF Decrypt(secret_key, self.otp_encrypted) # token
    THEN LET failed == self.failed_attempts + 1
         IN  IF failed >= self.max_failed_attempts
             THEN [ self |-> [ self EXCEPT !.failed_attempts = failed,
                                           !.lock_until = t + random_lock_time ],
                    result |-> Result(TRUE, "LOCKED", 0, random_lock_time, None) ]
             ELSE [ self |-> [ self EXCEPT !.failed_attempts = failed ],
                    result |-> Result(TRUE, "INVALID", 0, 0, None) ]
    ELSE [ self |-> self, result |-> Result(FALSE, "VERIFIED", 0, 0, None) ]

(* verify_token_compare whose success marks the code used but keeps the     *)
(* ciphertext stored.                                                        *)
verify_token_compare_keeping_code(self, t, token, random_lock_time, secret_key) ==
    IF ~CanDecrypt(secret_key, self.otp_encrypted)
    THEN [ self |-> self, result |-> Result(TRUE, "INTERNAL", 0, 0, None) ]
    ELSE IF Decrypt(secret_key, self.otp_encrypted) # token
    THEN LET failed == self.failed_attempts + 1
         IN  IF failed >= self.max_failed_attempts
             THEN [ self |-> [ self EXCEPT !.failed_attempts = failed,
                                           !.lock_until = t + random_lock_time ],
                    result |-> Result(TRUE, "LOCKED", 0, random_lock_time, None) ]
             ELSE [ self |-> [ self EXCEPT !.failed_attempts = failed ],
                    result |-> Result(TRUE, "INVALID", 0, 0, None) ]
    ELSE [ self |-> [ self EXCEPT !.used = TRUE,
                                  !.failed_attempts = 0,
                                  !.lock_until = None ],
           result |-> Result(FALSE, "VERIFIED", 0, 0, None) ]

(* verify_token_compare that locks one mismatch late: once the count has    *)
(* passed max_failed_attempts.                                               *)
verify_token_compare_locking_late(self, t, token, random_lock_time, secret_key) ==
    IF ~CanDecrypt(secret_key, self.otp_encrypted)
    THEN [ self |-> self, result |-> Result(TRUE, "INTERNAL", 0, 0, None) ]
    ELSE IF Decrypt(secret_key, self.otp_encrypted) # token
    THEN LET failed == self.failed_attempts + 1
         IN  IF failed > self.max_failed_attempts
             THEN [ self |-> [ self EXCEPT !.failed_attempts = failed,
                                           !.lock_until = t + random_lock_time ],
                    result |-> Result(TRUE, "LOCKED", 0, random_lock_time, None) ]
             ELSE [ self |-> [ self EXCEPT !.failed_attempts = failed ],
                    result |-> Result(TRUE, "INVALID", 0, 0, None) ]
    ELSE [ self |-> [ self EXCEPT !.used = TRUE,
                                  !.failed_attempts = 0,
                                  !.lock_until = None,
                                  !.otp_encrypted = NoCiphertext ],
           result |-> Result(FALSE, "VERIFIED", 0, 0, None) ]

(* verify_token, step 5: the stored code is decrypted and compared.  When    *)
(* _get_cipher or decrypt raises, the call answers with the generic error    *)
(* and saves nothing.                                                        *)
verify_token_compare(self, t, token, random_lock_time, secret_key) ==
    IF ~CanDecrypt(secret_key, self.otp_encrypted)
    THEN [ self |-> self, result |-> Result(TRUE, "INTERNAL", 0, 0, None) ]
    ELSE IF Decrypt(secret_key, self.otp_encrypted) # token
    THEN LET failed == self.failed_attempts + 1
         IN  IF failed >= self.max_failed_attempts
             THEN [ self |-> [ self EXCEPT !.failed_attempts = failed,
                                           !.lock_until = t + random_lock_time ],
                    result |-> Result(TRUE, "LOCKED", 0, random_lock_time, None) ]
             ELSE [ self |-> [ self EXCEPT !.failed_attempts = failed ],
                    result |-> Result(TRUE, "INVALID", 0, 0, None) ]
    ELSE [ self |-> [ self EXCEPT !.used = TRUE,
                                  !.failed_attempts = 0,
                                  !.lock_until = None,
                                  !.otp_encrypted = NoCiphertext ],
           result |-> Result(FALSE, "VERIFIED", 0, 0, None) ]

(* verify_token without its first check, the one of an active lock. *)
verify_token_no_lock_check(self, t, token, random_lock_time, secret_key) ==
    IF self.otp_encrypted = NoCiphertext
    THEN [ self |-> self, result |-> Result(TRUE, "INVALID", 0, 0, None) ]
    ELSE IF self.otp_expiry # None /\ t > self.otp_expiry
    THEN [ self |-> self, result |-> Result(TRUE, "EXPIRED", 0, 0, None) ]
    ELSE IF self.used
    THEN [ self |-> self, result |-> Result(TRUE, "ALREADY_USED", 0, 0, None) ]
    ELSE verify_token_compare(self, t, token, random_lock_time, secret_key)

(* verify_token that compares the codes before it checks the expiry. *)
verify_token_expiry_last(self, t, token, random_lock_time, secret_key) ==
    IF self.lock_until # None /\ t < self.lock_until
    THEN [ self |-> self,
           result |-> Result(TRUE, "LOCKED", 0, self.lock_until - t, None) ]
    ELSE IF self.otp_encrypted = NoCiphertext
    THEN [ self |-> self, result |-> Result(TRUE, "INVALID", 0, 0, None) ]
    ELSE IF self.used
    THEN [ self |-> self, result |-> Result(TRUE, "ALREADY_USED", 0, 0, None) ]
    ELSE IF ~CanDecrypt(secret_key, self.otp_encrypted)
         \/ Decrypt(secret_key, self.otp_encrypted) # token
    THEN verify_token_compare(self, t, token, random_lock_time, secret_key)
    ELSE IF self.otp_expiry # None /\ t > self.otp_expiry
    THEN [ self |-> self, result |-> Result(TRUE, "EXPIRED", 0, 0, None) ]
    ELSE verify_token_compare(self, t, token, random_lock_time, secret_key)

(* verify_token at time t for the submitted token, drawing the lock time. *)
verify_token(self, t, token, random_lock_time, secret_key) ==
    IF self.lock_until # None /\ t < self.lock_until
    THEN [ self |-> self,
           result |-> Result(TRUE, "LOCKED", 0, self.lock_until - t, None) ]
    ELSE IF self.otp_encrypted = NoCiphertext
    THEN [ self |-> self, result |-> Result(TRUE, "INVALID", 0, 0, None) ]
    ELSE IF self.otp_expiry # None /\ t > self.otp_expiry
    THEN [ self |-> self, result |-> Result(TRUE, "EXPIRED", 0, 0, None) ]
    ELSE IF self.used
    THEN [ self |-> self, result |-> Result(TRUE, "ALREADY_USED", 0, 0, None) ]
    ELSE verify_token_compare(self, t, token, random_lock_time, secret_key)

-----------------------------------------------------------------------------
(* utils/blocked_ip.py: the attempt counter and the permanent block *)

MAX_ATTEMPTS == 5
REDIS_EXPIRE_SECONDS == 900
BLOCKED_CACHE_TIMEOUT == 300

IPs == {"10.0.0.1", "10.0.0.2"}

(* get_client_ip_only returned None: the address cannot be detected. *)
NoIP == "undetectable"

(* No response: the caller goes on. *)
Proceed == 0

BlockedKey(ip) == <<"blocked_ip", ip>>
AttemptsKey(ip) == <<"login_attempts", ip>>

(* The cache: a key is there from cache.set until its timeout has passed. *)
CacheHas(c, t, key) == key \in DOMAIN c /\ t < c[key].expires
CacheSet(c, t, key, value, timeout) ==
    (key :> [value |-> value, expires |-> t + timeout]) @@ c
CacheDelete(c, key) == [k \in DOMAIN c \ {key} |-> c[k]]
CacheExpire(c, t) == [k \in {x \in DOMAIN c : t < c[x].expires} |-> c[k]]

(* BlockedIP.objects.filter(blocked_ip=ip, is_blocked=True).exists() *)
DbBlocked(db, ip) == ip \in DOMAIN db /\ db[ip].is_blocked

(* is_ip_in_db_blocklist: the answer, and the cache it leaves. *)
is_ip_in_db_blocklist(db, c, t, ip) ==
    IF CacheHas(c, t, BlockedKey(ip))
    THEN [ is_blocked |-> c[BlockedKey(ip)].value, cache |-> c ]
    ELSE [ is_blocked |-> DbBlocked(db, ip),
           cache |-> CacheSet(c, t, BlockedKey(ip), DbBlocked(db, ip),
                              BLOCKED_CACHE_TIMEOUT) ]

(* increment_attempts_in_redis that sets the counter and never increments. *)
increment_attempts_in_redis_set_only(c, t, ip) ==
    [ attempts |-> 1,
      cache |-> CacheSet(c, t, AttemptsKey(ip), 1, REDIS_EXPIRE_SECONDS) ]

(* increment_attempts_in_redis that restarts the timeout at every increment. *)
increment_attempts_in_redis_extending(c, t, ip) ==
    IF CacheHas(c, t, AttemptsKey(ip))
    THEN [ attempts |-> c[AttemptsKey(ip)].value + 1,
           cache |-> CacheSet(c, t, AttemptsKey(ip), c[AttemptsKey(ip)].value + 1,
                              REDIS_EXPIRE_SECONDS) ]
    ELSE [ attempts |-> 1,
           cache |-> CacheSet(c, t, AttemptsKey(ip), 1, REDIS_EXPIRE_SECONDS) ]

(* increment_attempts_in_redis: cache.incr keeps the key's timeout and       *)
(* raises ValueError when the key is not there.                              *)
increment_attempts_in_redis(c, t, ip) ==
    IF CacheHas(c, t, AttemptsKey(ip))
    THEN [ attempts |-> c[AttemptsKey(ip)].value + 1,
           cache |-> [c EXCEPT ![AttemptsKey(ip)].value = @ + 1] ]
    ELSE [ attempts |-> 1,
           cache |-> CacheSet(c, t, AttemptsKey(ip), 1, REDIS_EXPIRE_SECONDS) ]

reset_attempts_in_redis(c, ip) == CacheDelete(c, AttemptsKey(ip))

(* permanently_block_ip that does not clear the attempt counter. *)
permanently_block_ip_keeping_counter(db, c, t, ip) ==
    [ blocked_ips |->
          IF ip \notin DOMAIN db THEN (ip :> [is_blocked |-> TRUE]) @@ db
          ELSE IF ~db[ip].is_blocked THEN [db EXCEPT ![ip].is_blocked = TRUE]
          ELSE db,
      cache |-> CacheSet(c, t, BlockedKey(ip), TRUE, BLOCKED_CACHE_TIMEOUT) ]

(* permanently_block_ip that leaves only the new row in the table. *)
permanently_block_ip_replacing_rows(db, c, t, ip) ==
    [ blocked_ips |-> (ip :> [is_blocked |-> TRUE]),
      cache |-> reset_attempts_in_redis(
                    CacheSet(c, t, BlockedKey(ip), TRUE, BLOCKED_CACHE_TIMEOUT), ip) ]

(* permanently_block_ip: get_or_create the row, re-flag it if it was there   *)
(* unblocked, set the cache entry positive, clear the attempt counter.       *)
permanently_block_ip(db, c, t, ip) ==
    [ blocked_ips |->
          IF ip \notin DOMAIN db THEN (ip :> [is_blocked |-> TRUE]) @@ db
          ELSE IF ~db[ip].is_blocked THEN [db EXCEPT ![ip].is_blocked = TRUE]
          ELSE db,
      cache |-> reset_attempts_in_redis(
                    CacheSet(c, t, BlockedKey(ip), TRUE, BLOCKED_CACHE_TIMEOUT), ip) ]

(* block_ip that counts the attempt before it looks at the blocklist. *)
block_ip_counting_first(db, c, t, request_ip) ==
    IF request_ip = NoIP
    THEN [ status |-> 400, blocked_ips |-> db, cache |-> c ]
    ELSE
    LET inc == increment_attempts_in_redis(c, t, request_ip)
        chk == is_ip_in_db_blocklist(db, inc.cache, t, request_ip)
    IN  IF chk.is_blocked
        THEN [ status |-> 403, blocked_ips |-> db, cache |-> chk.cache ]
        ELSE IF inc.attempts >= MAX_ATTEMPTS
        THEN LET pb == permanently_block_ip(db, chk.cache, t, request_ip)
             IN  [ status |-> 403, blocked_ips |-> pb.blocked_ips, cache |-> pb.cache ]
        ELSE [ status |-> Proceed, blocked_ips |-> db, cache |-> chk.cache ]

(* block_ip: the status of the JsonResponse it returns (Proceed for None),   *)
(* and the table and cache it leaves.                                        *)
block_ip(db, c, t, request_ip) ==
    IF request_ip = NoIP
    THEN [ status |-> 400, blocked_ips |-> db, cache |-> c ]
    ELSE
    LET chk == is_ip_in_db_blocklist(db, c, t, request_ip)
    IN  IF chk.is_blocked
        THEN [ status |-> 403, blocked_ips |-> db, cache |-> chk.cache ]
        ELSE
        LET inc == increment_attempts_in_redis(chk.cache, t, request_ip)
        IN  IF inc.attempts >= MAX_ATTEMPTS
            THEN LET pb == permanently_block_ip(db, inc.cache, t, request_ip)
                 IN  [ status |-> 403, blocked_ips |-> pb.blocked_ips,
                       cache |-> pb.cache ]
            ELSE [ status |-> Proceed, blocked_ips |-> db, cache |-> inc.cache ]

-----------------------------------------------------------------------------
(* TrustedDevice *)

MAX_SESSIONS == 5
TRUSTED_DAYS_SECONDS == 2592000

(* TrustedDevice.objects.create: last_login is auto_now, and save() sets     *)
(* expires_at to now + 30 days when it is not given.                         *)
NewTrustedDevice(user, device_id, ua_info, ip_address, t) ==
    [ user       |-> user,
      device_id  |-> device_id,
      browser    |-> ua_info.browser,
      os         |-> ua_info.os,
      device     |-> ua_info.device,
      ip_address |-> ip_address,
      last_login |-> t,
      expires_at |-> t + TRUSTED_DAYS_SECONDS,
      is_active  |-> TRUE ]

(* is_expired with the comparison the wrong way round. *)
is_expired_inverted(row, t) == t <= row.expires_at

(* is_expired that never finds a device expired. *)
is_expired_never(row, t) == FALSE

(* TrustedDevice.is_expired *)
is_expired(row, t) == t > row.expires_at

(* cls.objects.filter(user=user, is_active=True) *)
ActiveDevices(rows, user) == {d \in rows : d.user = user /\ d.is_active}

(* enforce_session_limits that orders by -last_login. *)
enforce_session_limits_newest_first(rows, user) ==
    LET active == ActiveDevices(rows, user)
        excess_count == Cardinality(active) - MAX_SESSIONS
    IN  IF Cardinality(active) > MAX_SESSIONS
        THEN { rows \ S : S \in { X \in SUBSET active :
                   /\ Cardinality(X) = excess_count
                   /\ \A x \in X, y \in active \ X : x.last_login >= y.last_login } }
        ELSE { rows }

(* enforce_session_limits: the tables it may leave.  The rows deleted are    *)
(* the first excess_count by last_login; rows with equal last_login come in  *)
(* an order the database chooses.                                            *)
enforce_session_limits(rows, user) ==
    LET active == ActiveDevices(rows, user)
        excess_count == Cardinality(active) - MAX_SESSIONS
    IN  IF Cardinality(active) > MAX_SESSIONS
        THEN { rows \ S : S \in { X \in SUBSET active :
                   /\ Cardinality(X) = excess_count
                   /\ \A x \in X, y \in active \ X : x.last_login <= y.last_login } }
        ELSE { rows }

(* TrustedDevice.cleanup_expired_devices: the rows with expires_at < now are  *)
(* deleted, whoever they belong to and active or not, and their number is    *)
(* returned.                                                                 *)
cleanup_expired_devices(rows, t) ==
    LET expired_devices == {d \in rows : d.expires_at < t}
    IN  [ rows |-> rows \ expired_devices, count |-> Cardinality(expired_devices) ]

(* renew: save(update_fields=["expires_at"]) writes expires_at alone; the    *)
(* attributes assigned before the call and the auto_now last_login are not   *)
(* among the fields written.                                                 *)
renew(rows, row, t) ==
    (rows \ {row}) \cup {[row EXCEPT !.expires_at = t + TRUSTED_DAYS_SECONDS]}

(* deactivate: the row is kept, with is_active False. *)
deactivate(rows, row) == (rows \ {row}) \cup {[row EXCEPT !.is_active = FALSE]}

(* parse_user_agent for the User-Agent headers of the model: none, and       *)
(* Chrome on Windows (device family "Other", refined to "PC").               *)
UserAgents == {"", "Chrome/Windows"}
parse_user_agent(ua_string) ==
    IF ua_string = ""
    THEN [browser |-> "Unknown", os |-> "Unknown", device |-> "Unknown"]
    ELSE [browser |-> "Chrome", os |-> "Windows", device |-> "PC"]

-----------------------------------------------------------------------------
(* IPBlockMiddleware and the views *)

(* settings.DEBUG, as it is when DJANGO_DEBUG is not set. *)
DEBUG == FALSE

Passwords == {"secret", "guess"}

NoUser == "nobody"

(* django.contrib.auth.authenticate with the default ModelBackend: the user  *)
(* of that email, if the password is right and the user is active.           *)
authenticate(us, email, password) ==
    IF email \in DOMAIN us /\ us[email].password = password /\ us[email].is_active
    THEN email
    ELSE NoUser

(* process_request that does not consult the blocklist. *)
process_request_unchecked(db, c, t, request_ip) ==
    IF request_ip = NoIP
    THEN [ status |-> IF DEBUG THEN Proceed ELSE 400, cache |-> c ]
    ELSE [ status |-> Proceed, cache |-> c ]

(* IPBlockMiddleware.process_request: the status it answers with (Proceed    *)
(* when the request goes on to the view) and the cache it leaves.            *)
process_request(db, c, t, request_ip) ==
    IF request_ip = NoIP
    THEN [ status |-> IF DEBUG THEN Proceed ELSE 400, cache |-> c ]
    ELSE LET chk == is_ip_in_db_blocklist(db, c, t, request_ip)
         IN  [ status |-> IF chk.is_blocked THEN 403 ELSE Proceed,
               cache |-> chk.cache ]

(* A response of a view: status, what the body says, whether it carries      *)
(* access and refresh tokens, the trusted_device_id it carries, and the OTP  *)
(* code handed over for delivery (printed), if any.                          *)
Response(op, req, status, outcome, tokens, trusted_device_id, otp_code) ==
    [ op |-> op, req |-> req, status |-> status, outcome |-> outcome,
      tokens |-> tokens, trusted_device_id |-> trusted_device_id,
      otp_code |-> otp_code ]

(* The cookie carries no trusted device. *)
NoDeviceId == 0

(* otp_generator: get_or_create the user's device, generate_token, and the   *)
(* response built from its result.                                           *)
otp_generator(devs, user, t, code, random_offset, secret_key) ==
    LET device == IF user \in DOMAIN devs THEN devs[user] ELSE NewOTPDevice
        r == generate_token(device, t, code, random_offset, secret_key)
    IN  [ otp_devices |-> (user :> r.self) @@ devs,
          status  |-> IF r.result.error THEN r.result.status_code ELSE 200,
          outcome |-> IF r.result = Raised THEN "SERVER_ERROR"
                      ELSE IF r.result.error THEN r.result.kind ELSE "OTP_REQUIRED",
          otp_code |-> r.result.otp_code ]

(* The tables a request reads and writes. *)
Tables == [ users |-> users, otp_devices |-> otp_devices,
            trusted_devices |-> trusted_devices, blocked_ips |-> blocked_ips,
            cache |-> cache, secret_key |-> DJANGO_SECRET_KEY ]

(* Login.post that answers with block_ip's response when block_ip returns   *)
(* one for a blocked IP.                                                     *)
Login_post_answering_block(st, req, t, code, random_offset) ==
    LET user == authenticate(st.users, req.email, req.password)
        b == block_ip(st.blocked_ips, st.cache, t, req.ip)
        failed == [st EXCEPT !.blocked_ips = b.blocked_ips, !.cache = b.cache]
    IN
    IF user = NoUser
    THEN [ st |-> failed,
           response |-> IF b.status = 403
                        THEN Response("login", req, 403, "FORBIDDEN", FALSE, NoDeviceId, None)
                        ELSE Response("login", req, 401, "UNAUTHORIZED", FALSE,
                                      NoDeviceId, None) ]
    ELSE IF ~st.users[user].has_changed_password
    THEN [ st |-> st,
           response |-> Response("login", req, 200, "PASSWORD_RESET_REQUIRED",
                                 FALSE, NoDeviceId, None) ]
    ELSE IF ~st.users[user].is_active
    THEN [ st |-> failed,
           response |-> Response("login", req, 403, "SUSPENDED", FALSE, NoDeviceId, None) ]
    ELSE
    LET matches == { d \in st.trusted_devices :
                       d.user = user /\ d.device_id = req.trusted_device /\ d.is_active }
        found == req.trusted_device # NoDeviceId /\ matches # {}
        row == CHOOSE d \in matches : TRUE
        expired == found /\ is_expired(row, t)
    IN  IF found /\ ~expired
        THEN [ st |-> [st EXCEPT !.trusted_devices = renew(st.trusted_devices, row, t)],
               response |-> Response("login", req, 200, "TRUSTED_BYPASS",
                                     TRUE, NoDeviceId, None) ]
        ELSE
        LET g == otp_generator(st.otp_devices, user, t, code, random_offset, st.secret_key)
        IN  [ st |-> [st EXCEPT
                        !.trusted_devices = IF expired THEN @ \ {row} ELSE @,
                        !.otp_devices = g.otp_devices],
              response |-> Response("login", req, g.status, g.outcome,
                                    FALSE, NoDeviceId, g.otp_code) ]

(* Login.post whose trusted-device lookup does not filter on the user. *)
Login_post_any_users_device(st, req, t, code, random_offset) ==
    LET user == authenticate(st.users, req.email, req.password)
        b == block_ip(st.blocked_ips, st.cache, t, req.ip)
        failed == [st EXCEPT !.blocked_ips = b.blocked_ips, !.cache = b.cache]
    IN
    IF user = NoUser
    THEN [ st |-> failed,
           response |-> Response("login", req, 401, "UNAUTHORIZED", FALSE, NoDeviceId, None) ]
    ELSE IF ~st.users[user].has_changed_password
    THEN [ st |-> st,
           response |-> Response("login", req, 200, "PASSWORD_RESET_REQUIRED",
                                 FALSE, NoDeviceId, None) ]
    ELSE IF ~st.users[user].is_active
    THEN [ st |-> failed,
           response |-> Response("login", req, 403, "SUSPENDED", FALSE, NoDeviceId, None) ]
    ELSE
    LET matches == { d \in st.trusted_devices :
                       d.device_id = req.trusted_device /\ d.is_active }
        found == req.trusted_device # NoDeviceId /\ matches # {}
        row == CHOOSE d \in matches : TRUE
        expired == found /\ is_expired(row, t)
    IN  IF found /\ ~expired
        THEN [ st |-> [st EXCEPT !.trusted_devices = renew(st.trusted_devices, row, t)],
               response |-> Response("login", req, 200, "TRUSTED_BYPASS",
                                     TRUE, NoDeviceId, None) ]
        ELSE
        LET g == otp_generator(st.otp_devices, user, t, code, random_offset, st.secret_key)
        IN  [ st |-> [st EXCEPT
                        !.trusted_devices = IF expired THEN @ \ {row} ELSE @,
                        !.otp_devices = g.otp_devices],
              response |-> Response("login", req, g.status, g.outcome,
                                    FALSE, NoDeviceId, g.otp_code) ]

(* Login.post at time t for req = [ip, ua, email, password, trusted_device], *)
(* drawing `code` and the random offset if it comes to generate_token.       *)
Login_post(st, req, t, code, random_offset) ==
    LET user == authenticate(st.users, req.email, req.password)
        b == block_ip(st.blocked_ips, st.cache, t, req.ip)
        failed == [st EXCEPT !.blocked_ips = b.blocked_ips, !.cache = b.cache]
    IN
    IF user = NoUser
    THEN [ st |-> failed,
           response |-> Response("login", req, 401, "UNAUTHORIZED", FALSE, NoDeviceId, None) ]
    ELSE IF ~st.users[user].has_changed_password
    THEN [ st |-> st,
           response |-> Response("login", req, 200, "PASSWORD_RESET_REQUIRED",
                                 FALSE, NoDeviceId, None) ]
    ELSE IF ~st.users[user].is_active
    THEN [ st |-> failed,
           response |-> Response("login", req, 403, "SUSPENDED", FALSE, NoDeviceId, None) ]
    ELSE
    LET matches == { d \in st.trusted_devices :
                       d.user = user /\ d.device_id = req.trusted_device /\ d.is_active }
        found == req.trusted_device # NoDeviceId /\ matches # {}
        row == CHOOSE d \in matches : TRUE
        expired == found /\ is_expired(row, t)
    IN  IF found /\ ~expired
        THEN [ st |-> [st EXCEPT !.trusted_devices = renew(st.trusted_devices, row, t)],
               response |-> Response("login", req, 200, "TRUSTED_BYPASS",
                                     TRUE, NoDeviceId, None) ]
        ELSE
        LET g == otp_generator(st.otp_devices, user, t, code, random_offset, st.secret_key)
        IN  [ st |-> [st EXCEPT
                        !.trusted_devices = IF expired THEN @ \ {row} ELSE @,
                        !.otp_devices = g.otp_devices],
              response |-> Response("login", req, g.status, g.outcome,
                                    FALSE, NoDeviceId, g.otp_code) ]

(* ForceChangePassword.post for req = [ip, email, current_password,          *)
(* new_password].                                                            *)
ForceChangePassword_post(st, req) ==
    LET user == authenticate(st.users, req.email, req.current_password)
    IN
    IF user = NoUser
    THEN [ st |-> st,
           response |-> Response("force_change_password", req, 401, "UNAUTHORIZED",
                                 FALSE, NoDeviceId, None) ]
    ELSE IF ~st.users[user].is_active
    THEN [ st |-> st,
           response |-> Response("force_change_password", req, 403, "SUSPENDED",
                                 FALSE, NoDeviceId, None) ]
    ELSE [ st |-> [st EXCEPT !.users[user].password = req.new_password,
                             !.users[user].has_changed_password = TRUE],
           response |-> Response("force_change_password", req, 200, "PASSWORD_CHANGED",
                                 FALSE, NoDeviceId, None) ]

(* Verify2Fa.post that goes on to the session after a mismatch. *)
Verify2Fa_post_admitting_mismatch(st, req, t, random_lock_time, device_id) ==
    IF req.email \notin DOMAIN st.otp_devices
    THEN { [ st |-> st,
             response |-> Response("verify_otp", req, 400, "NO_DEVICE",
                                   FALSE, NoDeviceId, None) ] }
    ELSE
    LET user == req.email
        r == verify_token(st.otp_devices[user], t, req.otp_code, random_lock_time, st.secret_key)
        verified == [st EXCEPT !.otp_devices[user] = r.self]
    IN  IF r.result.error /\ r.result.kind # "INVALID"
        THEN { [ st |-> verified,
                 response |-> Response("verify_otp", req, 400, r.result.kind,
                                       FALSE, NoDeviceId, None) ] }
        ELSE { [ st |-> [verified EXCEPT !.trusted_devices =
                           rows \cup { NewTrustedDevice(user, device_id,
                                           parse_user_agent(req.ua), req.ip, t) }],
                 response |-> Response("verify_otp", req, 200, "VERIFIED",
                                       TRUE, device_id, None) ]
               : rows \in enforce_session_limits(st.trusted_devices, user) }

(* Verify2Fa.post at time t for req = [ip, ua, email, otp_code], drawing the *)
(* lock time and the new device identifier: the outcomes it may have (one,   *)
(* but for the rows enforce_session_limits picks among equal last_login).    *)
Verify2Fa_post(st, req, t, random_lock_time, device_id) ==
    IF req.email \notin DOMAIN st.otp_devices
    THEN { [ st |-> st,
             response |-> Response("verify_otp", req, 400, "NO_DEVICE",
                                   FALSE, NoDeviceId, None) ] }
    ELSE
    LET user == req.email
        r == verify_token(st.otp_devices[user], t, req.otp_code, random_lock_time, st.secret_key)
        verified == [st EXCEPT !.otp_devices[user] = r.self]
    IN  IF r.result.error
        THEN { [ st |-> verified,
                 response |-> Response("verify_otp", req, 400, r.result.kind,
                                       FALSE, NoDeviceId, None) ] }
        ELSE { [ st |-> [verified EXCEPT !.trusted_devices =
                           rows \cup { NewTrustedDevice(user, device_id,
                                           parse_user_agent(req.ua), req.ip, t) }],
                 response |-> Response("verify_otp", req, 200, "VERIFIED",
                                       TRUE, device_id, None) ]
               : rows \in enforce_session_limits(st.trusted_devices, user) }

(* The throttles of REST framework (settings.REST_FRAMEWORK).  Every view is *)
(* behind AnonRateThrottle, UserRateThrottle and ScopedRateThrottle, in that *)
(* order; each keeps the times of the requests it allowed, newest first,     *)
(* under its own key of the default cache.  The requests of the model carry  *)
(* neither a token nor proxy headers: they are anonymous, and the ident of   *)
(* all three throttles is the address of the client.                         *)

(* DEFAULT_THROTTLE_RATES: scope -> <<num_requests, duration in seconds>>. *)
ThrottleRates ==
    IF DEBUG
    THEN [ anon |-> <<1000, 60>>, user |-> <<5000, 60>>, login |-> <<5, 60>>,
           otp |-> <<3, 60>>, password_change |-> <<3, 60>> ]
    ELSE [ anon |-> <<100, 3600>>, user |-> <<1000, 3600>>, login |-> <<5, 60>>,
           otp |-> <<3, 60>>, password_change |-> <<5, 60>> ]

(* throttle_scope of the view that answers op. *)
ThrottleScope(op) ==
    CASE op = "login" -> "login"
      [] op = "verify_otp" -> "otp"
      [] op = "force_change_password" -> "password_change"

ThrottleKey(scope, ident) == <<"throttle", scope, ident>>

(* while self.history and self.history[-1] <= self.now - self.duration:      *)
(*     self.history.pop()                                                    *)
RECURSIVE DropExpired(_, _)
DropExpired(history, limit) ==
    IF history # <<>> /\ history[Len(history)] <= limit
    THEN DropExpired(SubSeq(history, 1, Len(history) - 1), limit)
    ELSE history

(* The history a throttle works on: cache.get(key, []), the old times gone. *)
ThrottleHistory(c, t, scope, ident) ==
    DropExpired(IF CacheHas(c, t, ThrottleKey(scope, ident))
                THEN c[ThrottleKey(scope, ident)].value ELSE <<>>,
                t - ThrottleRates[scope][2])

(* SimpleRateThrottle.allow_request: a request over the rate is refused and  *)
(* writes nothing; an allowed one is put in front of the history, which is   *)
(* stored with the duration as its timeout.                                  *)
allow_request(c, t, scope, ident) ==
    LET history == ThrottleHistory(c, t, scope, ident)
    IN  IF Len(history) >= ThrottleRates[scope][1]
        THEN [ allowed |-> FALSE, cache |-> c ]
        ELSE [ allowed |-> TRUE,
               cache |-> CacheSet(c, t, ThrottleKey(scope, ident), <<t>> \o history,
                                  ThrottleRates[scope][2]) ]

(* APIView.check_throttles: every throttle is asked, and the request is      *)
(* throttled when one of them refuses.                                       *)
check_throttles(c, t, scope, ident) ==
    LET anon == allow_request(c, t, "anon", ident)
        user == allow_request(anon.cache, t, "user", ident)
        scoped == allow_request(user.cache, t, scope, ident)
    IN  [ throttled |-> ~(anon.allowed /\ user.allowed /\ scoped.allowed),
          cache |-> scoped.cache ]

(* The view works on the tables as the middleware left them. *)
AfterMiddleware(st, t, ip) ==
    [st EXCEPT !.cache = process_request(st.blocked_ips, st.cache, t, ip).cache]

(* post() works on the tables as the middleware and the throttles left them. *)
AtView(st, op, t, ip) ==
    [st EXCEPT !.cache = check_throttles(AfterMiddleware(st, t, ip).cache, t,
                                         ThrottleScope(op), ip).cache]

(* A request through IPBlockMiddleware and the throttles: answered by the    *)
(* middleware, or answered 429 by the exception handler when it is           *)
(* throttled, or handed to post(), whose outcomes are `outcomes`.            *)
Through(st, op, req, t, outcomes) ==
    LET m == process_request(st.blocked_ips, st.cache, t, req.ip)
        th == check_throttles(m.cache, t, ThrottleScope(op), req.ip)
    IN  IF m.status # Proceed
        THEN { [ st |-> [st EXCEPT !.cache = m.cache],
                 response |-> Response(op, req, m.status,
                                       IF m.status = 403 THEN "FORBIDDEN" ELSE "BAD_REQUEST",
                                       FALSE, NoDeviceId, None) ] }
        ELSE IF th.throttled
        THEN { [ st |-> [st EXCEPT !.cache = th.cache],
                 response |-> Response(op, req, 429, "THROTTLED",
                                       FALSE, NoDeviceId, None) ] }
        ELSE outcomes

(* APIView.dispatch of Login behind the middleware: the login request req,   *)
(* handled from start to finish at time t.                                   *)
Login_dispatch(st, req, t, code, random_offset) ==
    Through(st, "login", req, t,
            { Login_post(AtView(st, "login", t, req.ip), req, t, code, random_offset) })

(* APIView.dispatch of Verify2Fa behind the middleware. *)
Verify2Fa_dispatch(st, req, t, random_lock_time, device_id) ==
    Through(st, "verify_otp", req, t,
            Verify2Fa_post(AtView(st, "verify_otp", t, req.ip), req, t,
                           random_lock_time, device_id))

(* The throttles of the view of op, in the order check_throttles asks them. *)
Throttles(op) == <<"anon", "user", ThrottleScope(op)>>

(* The requests from ip that the throttles have on record at time t. *)
RequestsOnRecord(c, t, ip) == Len(ThrottleHistory(c, t, "user", ip))

(* The request from ip to the view of op gets through the middleware and is *)
(* throttled at time t.                                                      *)
Throttled(st, op, t, ip) ==
    /\ process_request(st.blocked_ips, st.cache, t, ip).status = Proceed
    /\ check_throttles(AfterMiddleware(st, t, ip).cache, t, ThrottleScope(op), ip).throttled

(* The tables become those of outcome o, and o.response is the response. *)
Becomes(o) ==
    /\ users' = o.st.users
    /\ otp_devices' = o.st.otp_devices
    /\ trusted_devices' = o.st.trusted_devices
    /\ blocked_ips' = o.st.blocked_ips
    /\ cache' = o.st.cache
    /\ response' = o.response

-----------------------------------------------------------------------------
(* The tables and the clock *)

(* No call is being answered. *)
NoResponse == [ op |-> "none" ]

(* d seconds pass, up to the horizon: cache entries whose timeout has passed *)
(* are gone, and the last response belongs to the instant it was given at.   *)
Advance(d, horizon) ==
    /\ now + d <= horizon
    /\ now' = now + d
    /\ cache' = CacheExpire(cache, now + d)
    /\ response' = NoResponse
    /\ UNCHANGED <<DJANGO_SECRET_KEY, users, otp_devices, trusted_devices, blocked_ips, next_device_id,
                   in_flight>>

-----------------------------------------------------------------------------
Users == {"alice", "bob"}

(* Accounts as created: the initial password not yet changed.  bob has been *)
(* deactivated.                                                             *)
InitUsers ==
    [u \in Users |->
        [ password |-> "secret", has_changed_password |-> FALSE,
          is_active |-> (u = "alice") ]]

(* The OTP device on its own: generate_token and verify_token called on     *)
(* one device row, as otp_generator and Verify2Fa call them.                 *)

OtpUser == "alice"

NoHist ==
    [ mismatch_run |-> 0,       \* verify_token calls in a row that compared and mismatched
      consumed     |-> FALSE,   \* a verification succeeded since the last generation
      last_code    |-> None,    \* code returned by the latest successful generation
      prev_code    |-> None,    \* code returned by the generation before it, kept
      prev_expiry  |-> None,    \* until prev_expiry, the end of its validity window
      unlocked     |-> FALSE ]  \* the latest successful generation cleared an elapsed lock

InitOtp ==
    /\ now = 0
    /\ DJANGO_SECRET_KEY = DeployedKey
    /\ users = InitUsers
    /\ otp_devices = (OtpUser :> NewOTPDevice)
    /\ trusted_devices = {}
    /\ blocked_ips = <<>>
    /\ cache = <<>>
    /\ next_device_id = 0
    /\ response = NoResponse
    /\ in_flight = <<>>
    /\ hist = NoHist

GenerateToken ==
    \E code \in Codes, random_offset \in RandomOffsets :
        LET self == otp_devices[OtpUser]
            r == generate_token(self, now, code, random_offset, DJANGO_SECRET_KEY)
        IN  /\ otp_devices' = [otp_devices EXCEPT ![OtpUser] = r.self]
            /\ response' = [ op |-> "generate_token", token |-> None, result |-> r.result ]
            /\ hist' = IF r.result.error THEN hist
                       ELSE [ mismatch_run |-> 0,
                              consumed     |-> FALSE,
                              last_code    |-> code,
                              prev_code    |-> IF now <= self.otp_expiry
                                               THEN hist.last_code ELSE None,
                              prev_expiry  |-> IF now <= self.otp_expiry
                                               THEN self.otp_expiry ELSE None,
                              unlocked     |-> /\ self.lock_until # None
                                               /\ now >= self.lock_until ]
            /\ UNCHANGED <<DJANGO_SECRET_KEY, in_flight, now, users, trusted_devices, blocked_ips, cache, next_device_id>>

VerifyToken ==
    \E token \in Codes, random_lock_time \in RandomLockTimes :
        LET self == otp_devices[OtpUser]
            r == verify_token(self, now, token, random_lock_time, DJANGO_SECRET_KEY)
            mismatched == /\ self.otp_encrypted # NoCiphertext
                          /\ CanDecrypt(DJANGO_SECRET_KEY, self.otp_encrypted)
                          /\ ~self.used
                          /\ now <= self.otp_expiry
                          /\ token # hist.last_code
        IN  /\ otp_devices' = [otp_devices EXCEPT ![OtpUser] = r.self]
            /\ response' = [ op |-> "verify_token", token |-> token, result |-> r.result ]
            /\ hist' = [ hist EXCEPT
                           !.mismatch_run = IF mismatched THEN Min(@ + 1, self.max_failed_attempts) ELSE 0,
                           !.consumed = @ \/ ~r.result.error ]
            /\ UNCHANGED <<DJANGO_SECRET_KEY, in_flight, now, users, trusted_devices, blocked_ips, cache, next_device_id>>

(* Seconds a step of the clock may add: within and beyond the cooldown,     *)
(* the validity window and the lock.                                         *)
TimeSteps == {60, 300}

TickOtp ==
    /\ \E d \in TimeSteps : Advance(d, MaxTime)
    /\ hist' = IF hist.prev_expiry # None /\ now' > hist.prev_expiry
               THEN [hist EXCEPT !.prev_code = None, !.prev_expiry = None]
               ELSE hist

NextOtp == GenerateToken \/ VerifyToken \/ TickOtp

SpecOtp == InitOtp /\ [][NextOtp]_vars

-----------------------------------------------------------------------------
(* SpecKeys: the OTP device while DJANGO_SECRET_KEY is changed, or left      *)
(* unset, between its calls: the key is rotated, or the server is started    *)
(* without the variable.                                                     *)

MaxTimeKeys == 450

KeysStep == 150

SetSecretKey ==
    \E secret_key \in SecretKeys \cup {NoKey} :
        /\ secret_key # DJANGO_SECRET_KEY
        /\ DJANGO_SECRET_KEY' = secret_key
        /\ response' = NoResponse
        /\ UNCHANGED <<now, users, otp_devices, trusted_devices, blocked_ips, cache,
                       next_device_id, in_flight, hist>>

TickKeys ==
    /\ Advance(KeysStep, MaxTimeKeys)
    /\ hist' = IF hist.prev_expiry # None /\ now' > hist.prev_expiry
               THEN [hist EXCEPT !.prev_code = None, !.prev_expiry = None]
               ELSE hist

NextKeys == GenerateToken \/ VerifyToken \/ SetSecretKey \/ TickKeys

SpecKeys == InitOtp /\ [][NextKeys]_vars

-----------------------------------------------------------------------------
(* The IP pipeline on its own: block_ip as the views call it on a failed     *)
(* action, and is_ip_in_db_blocklist as the middleware calls it.             *)

MaxTimeIp == 1200

TimeStepsIp == {150, 450}

(* streak[ip]: block_ip calls made for ip while it was not blocked, since    *)
(* the last expiry of its attempt counter; window_end[ip]: when the counter  *)
(* started by the first call of the streak expires.                          *)
NoHistIp == [ streak |-> [ip \in IPs |-> 0], window_end |-> [ip \in IPs |-> None] ]

(* Rows of the table at the start: none, or rows an administrator unblocked. *)
InitIp ==
    /\ now = 0
    /\ DJANGO_SECRET_KEY = DeployedKey
    /\ users = InitUsers
    /\ otp_devices = <<>>
    /\ trusted_devices = {}
    /\ \E S \in SUBSET IPs : blocked_ips = [ip \in S |-> [is_blocked |-> FALSE]]
    /\ cache = <<>>
    /\ next_device_id = 0
    /\ response = NoResponse
    /\ in_flight = <<>>
    /\ hist = NoHistIp

RecordFailure ==
    \E ip \in IPs \cup {NoIP} :
        LET r == block_ip(blocked_ips, cache, now, ip)
            counted == ip \in IPs /\ ~DbBlocked(blocked_ips, ip)
        IN  /\ blocked_ips' = r.blocked_ips
            /\ cache' = r.cache
            /\ response' = [ op |-> "block_ip", ip |-> ip, status |-> r.status ]
            /\ hist' = IF ~counted THEN hist
                       ELSE [ streak |-> [hist.streak EXCEPT
                                            ![ip] = Min(@ + 1, MAX_ATTEMPTS + 1)],
                              window_end |-> [hist.window_end EXCEPT
                                            ![ip] = IF hist.streak[ip] = 0
                                                    THEN now + REDIS_EXPIRE_SECONDS
                                                    ELSE @] ]
            /\ UNCHANGED <<DJANGO_SECRET_KEY, in_flight, now, users, otp_devices, trusted_devices, next_device_id>>

CheckBlocked ==
    \E ip \in IPs :
        LET r == is_ip_in_db_blocklist(blocked_ips, cache, now, ip)
        IN  /\ cache' = r.cache
            /\ response' = [ op |-> "is_ip_in_db_blocklist", ip |-> ip,
                             is_blocked |-> r.is_blocked ]
            /\ UNCHANGED <<DJANGO_SECRET_KEY, in_flight, now, users, otp_devices, trusted_devices, blocked_ips,
                           next_device_id, hist>>

(* The streaks once the clock reads t: a streak ends with its counter. *)
StreaksAt(t) ==
    LET over(ip) == /\ hist.window_end[ip] # None
                    /\ t >= hist.window_end[ip]
                    /\ ~DbBlocked(blocked_ips, ip)
    IN  [ streak |-> [ip \in IPs |-> IF over(ip) THEN 0 ELSE hist.streak[ip]],
          window_end |-> [ip \in IPs |-> IF over(ip) THEN None ELSE hist.window_end[ip]] ]

TickIp ==
    /\ \E d \in TimeStepsIp : Advance(d, MaxTimeIp)
    /\ hist' = StreaksAt(now')

NextIp == RecordFailure \/ CheckBlocked \/ TickIp

SpecIp == InitIp /\ [][NextIp]_vars

-----------------------------------------------------------------------------
(* The server: login, force-change-password and verify-otp requests, each    *)
(* through IPBlockMiddleware, one at a time.                                 *)

MaxTimeMain == 300

TimeStepsMain == {150, 300}

MaxDeviceIds == 2

(* The requests an address makes within the hour. *)
MaxRequestsMain == 6

Init ==
    /\ now = 0
    /\ DJANGO_SECRET_KEY = DeployedKey
    /\ users = InitUsers
    /\ otp_devices = <<>>
    /\ trusted_devices = {}
    /\ blocked_ips = <<>>
    /\ cache = <<>>
    /\ next_device_id = 0
    /\ response = NoResponse
    /\ in_flight = <<>>
    /\ hist = NoHistIp

(* hist.streak[ip]: the logins with a wrong password that ip has made in a   *)
(* row, the first of them with no failure recorded against ip and no block,  *)
(* and no expiry of its attempt counter since.  A login the throttles refuse *)
(* never reaches the view and leaves the streak as it is.                    *)
LoginStreaks(req) ==
    IF req.ip \notin IPs \/ Throttled(Tables, "login", now, req.ip) THEN hist
    ELSE
    LET ip == req.ip
        wrong == req.password # users[req.email].password
        fresh == /\ ~DbBlocked(blocked_ips, ip)
                 /\ ~CacheHas(cache, now, AttemptsKey(ip))
        n == hist.streak[ip]
        starts == wrong /\ n = 0 /\ fresh
        goes_on == wrong /\ n > 0
    IN  [ streak |-> [hist.streak EXCEPT
                        ![ip] = IF goes_on THEN Min(n + 1, MAX_ATTEMPTS + 1)
                                ELSE IF starts THEN 1 ELSE 0],
          window_end |-> [hist.window_end EXCEPT
                        ![ip] = IF goes_on THEN @
                                ELSE IF starts THEN now + REDIS_EXPIRE_SECONDS
                                ELSE None] ]

LoginRequest(ips, uas, emails, passwords, cookies, codes, offsets, max_requests) ==
    \E ip \in ips, ua \in uas, email \in emails, password \in passwords,
       trusted_device \in cookies, code \in codes, random_offset \in offsets :
        LET req == [ ip |-> ip, ua |-> ua, email |-> email, password |-> password,
                     trusted_device |-> trusted_device ]
        IN  /\ process_request(blocked_ips, cache, now, ip).status = Proceed
                 => RequestsOnRecord(cache, now, ip) < max_requests
            /\ \E o \in Login_dispatch(Tables, req, now, code, random_offset) : Becomes(o)
            /\ hist' = LoginStreaks(req)
            /\ UNCHANGED <<DJANGO_SECRET_KEY, in_flight, now, next_device_id>>

ForceChangePasswordRequest(ips, emails, new_passwords, max_requests) ==
    \E ip \in ips, email \in emails, current_password \in Passwords,
       new_password \in new_passwords :
        LET req == [ ip |-> ip, email |-> email, current_password |-> current_password,
                     new_password |-> new_password ]
        IN  /\ process_request(blocked_ips, cache, now, ip).status = Proceed
                 => RequestsOnRecord(cache, now, ip) < max_requests
            /\ \E o \in Through(Tables, "force_change_password", req, now,
                        { ForceChangePassword_post(
                              AtView(Tables, "force_change_password", now, ip), req) }) :
                   Becomes(o)
            /\ UNCHANGED <<DJANGO_SECRET_KEY, in_flight, now, next_device_id, hist>>

Verify2FaRequest(ips, uas, emails, otp_codes, lock_times, max_ids, max_requests) ==
    \E ip \in ips, ua \in uas, email \in emails, otp_code \in otp_codes,
       random_lock_time \in lock_times :
        LET req == [ ip |-> ip, ua |-> ua, email |-> email, otp_code |-> otp_code ]
        IN  /\ process_request(blocked_ips, cache, now, ip).status = Proceed
                 => RequestsOnRecord(cache, now, ip) < max_requests
            /\ \E o \in Verify2Fa_dispatch(Tables, req, now, random_lock_time,
                                           next_device_id + 1) :
                   /\ Becomes(o)
                   /\ next_device_id' = IF o.response.outcome = "VERIFIED"
                                        THEN next_device_id + 1 ELSE next_device_id
                   /\ next_device_id' <= max_ids
            /\ UNCHANGED <<DJANGO_SECRET_KEY, in_flight, now, hist>>

MainIPs == {"10.0.0.1", NoIP}

MainEmails == {"alice"}

Login ==
    LoginRequest(MainIPs, {"Chrome/Windows"}, MainEmails, Passwords,
                 {NoDeviceId} \cup 1..next_device_id, {1}, {RANDOM_WAIT_MIN},
                 MaxRequestsMain)

ForceChangePassword == ForceChangePasswordRequest(MainIPs, MainEmails, {"secret"}, MaxRequestsMain)

Verify2Fa ==
    Verify2FaRequest(MainIPs, {"Chrome/Windows"}, MainEmails, Codes, {MIN_LOCK_TIME},
                     MaxDeviceIds, MaxRequestsMain)

Tick ==
    /\ \E d \in TimeStepsMain : Advance(d, MaxTimeMain)
    /\ hist' = StreaksAt(now')

Next == Login \/ ForceChangePassword \/ Verify2Fa \/ Tick

Spec == Init /\ [][Next]_vars

-----------------------------------------------------------------------------
(* The sessions of one account: alice, her initial password changed, signs   *)
(* in from one IP again and again, with an OTP or with her first trusted    *)
(* device.                                                                   *)

MaxTimeSessions == 21600

SessionStep == 75

(* The time between two visits: the hour the throttles remember. *)
SessionGap == 3600

MaxSessionIds == 7

MaxRequestsSessions == 3

SessionIP == "10.0.0.1"

InitSessions ==
    /\ now = 0
    /\ DJANGO_SECRET_KEY = DeployedKey
    /\ users = [InitUsers EXCEPT !["alice"].has_changed_password = TRUE]
    /\ otp_devices = <<>>
    /\ trusted_devices = {}
    /\ blocked_ips = <<>>
    /\ cache = <<>>
    /\ next_device_id = 0
    /\ response = NoResponse
    /\ in_flight = <<>>
    /\ hist = NoHistIp

LoginSessions ==
    LoginRequest({SessionIP}, {"Chrome/Windows"}, {"alice"}, {"secret"},
                 {NoDeviceId, Min(1, next_device_id)},
                 {1}, {RANDOM_WAIT_MIN},
                 MaxRequestsSessions)

Verify2FaSessions ==
    Verify2FaRequest({SessionIP}, {"Chrome/Windows"}, {"alice"}, {1}, {MIN_LOCK_TIME},
                     MaxSessionIds, MaxRequestsSessions)

TickSessions ==
    /\ Advance(SessionGap, MaxTimeSessions)
    /\ hist' = StreaksAt(now')

NextSessions == LoginSessions \/ Verify2FaSessions \/ TickSessions

SpecSessions == InitSessions /\ [][NextSessions]_vars

-----------------------------------------------------------------------------
(* enforce_session_limits on its own: a table of trusted devices, and the    *)
(* classmethod called on it for a user.                                      *)

MaxRows == 7

LastLogins == {0, 75, 150}

(* The rows device_id 1..n of alice, active, with the given last_login;      *)
(* a row of hers that was deactivated, and an active row of bob.             *)
LimitsTable(last_login) ==
    { [NewTrustedDevice("alice", i, parse_user_agent(""), SessionIP, last_login[i])
         EXCEPT !.expires_at = TRUSTED_DAYS_SECONDS] : i \in DOMAIN last_login }
    \cup { [NewTrustedDevice("alice", MaxRows + 1, parse_user_agent(""), SessionIP, 0)
              EXCEPT !.is_active = FALSE],
           NewTrustedDevice("bob", MaxRows + 2, parse_user_agent(""), SessionIP, 0) }

InitLimits ==
    /\ now = 150
    /\ DJANGO_SECRET_KEY = DeployedKey
    /\ users = InitUsers
    /\ otp_devices = <<>>
    /\ \E n \in 0..MaxRows : \E last_login \in [1..n -> LastLogins] :
          trusted_devices = LimitsTable(last_login)
    /\ blocked_ips = <<>>
    /\ cache = <<>>
    /\ next_device_id = MaxRows + 2
    /\ response = NoResponse
    /\ in_flight = <<>>
    /\ hist = NoHistIp

EnforceSessionLimits ==
    \E user \in Users :
        /\ trusted_devices' \in enforce_session_limits(trusted_devices, user)
        /\ response' = [ op |-> "enforce_session_limits", user |-> user,
                         before |-> trusted_devices ]
        /\ UNCHANGED <<DJANGO_SECRET_KEY, in_flight, now, users, otp_devices, blocked_ips, cache, next_device_id, hist>>

NextLimits == EnforceSessionLimits

SpecLimits == InitLimits /\ [][NextLimits]_vars

-----------------------------------------------------------------------------
(* The trusted devices of one account over their thirty days: alice, her     *)
(* initial password changed, signs in from two IPs and two browsers, with    *)
(* an OTP or with the cookie of a trusted device.                            *)

MaxTimeDevices == 2592075

(* The instants of the requests: at once, a little later, and both again    *)
(* thirty days on.                                                           *)
TimesDevices ==
    {SessionStep, TRUSTED_DAYS_SECONDS, TRUSTED_DAYS_SECONDS + SessionStep}

MaxDeviceIdsDevices == 2

MaxRequestsDevices == 3

InitDevices ==
    /\ now = 0
    /\ DJANGO_SECRET_KEY = DeployedKey
    /\ users = [InitUsers EXCEPT !["alice"].has_changed_password = TRUE]
    /\ otp_devices = <<>>
    /\ trusted_devices = {}
    /\ blocked_ips = <<>>
    /\ cache = <<>>
    /\ next_device_id = 0
    /\ response = NoResponse
    /\ in_flight = <<>>
    /\ hist = NoHistIp

LoginDevices ==
    LoginRequest(IPs, UserAgents, {"alice"}, {"secret"},
                 {NoDeviceId} \cup 1..next_device_id, {1}, {RANDOM_WAIT_MIN},
                 MaxRequestsDevices)

Verify2FaDevices ==
    Verify2FaRequest({SessionIP}, {"Chrome/Windows"}, {"alice"}, {1}, {MIN_LOCK_TIME},
                     MaxDeviceIdsDevices, MaxRequestsDevices)

TickDevices ==
    /\ \E t \in TimesDevices : t > now /\ Advance(t - now, MaxTimeDevices)
    /\ hist' = StreaksAt(now')

(* TrustedDevice.cleanup_expired_devices(), run from outside the views. *)
CleanupExpiredDevices ==
    LET r == cleanup_expired_devices(trusted_devices, now)
    IN  /\ trusted_devices' = r.rows
        /\ response' = [ op |-> "cleanup_expired_devices", count |-> r.count,
                         before |-> trusted_devices ]
        /\ UNCHANGED <<DJANGO_SECRET_KEY, now, users, otp_devices, blocked_ips, cache,
                       next_device_id, in_flight, hist>>

NextDevices == LoginDevices \/ Verify2FaDevices \/ CleanupExpiredDevices \/ TickDevices

SpecDevices == InitDevices /\ [][NextDevices]_vars

-----------------------------------------------------------------------------
(* Concurrent verify-otp requests: two workers each handle one request for   *)
(* alice in the same instant.  A worker's queries are separate steps: the    *)
(* get() of the device row, verify_token on the instance it loaded with its  *)
(* save(update_fields=...), enforce_session_limits, and the create().  No    *)
(* transaction or row lock joins them (autocommit).  The middleware's cache  *)
(* lookup, query and cache write, each throttle's cache read and write, and  *)
(* the four queries of enforce_session_limits are steps of their own too.    *)

Workers == {1, 2}

MaxSignIns == 6

MaxMismatches == 4

WrongCode == 2

RaceRequest(otp_code) ==
    [ ip |-> SessionIP, ua |-> "Chrome/Windows", email |-> "alice", otp_code |-> otp_code ]

RaceLogin ==
    [ ip |-> SessionIP, ua |-> "Chrome/Windows", email |-> "alice", password |-> "secret",
      trusted_device |-> NoDeviceId ]

(* The tables alice may leave by signing in k times with an OTP,             *)
(* SessionStep apart, starting from st: each time a login request and a      *)
(* verify-otp request with the code.                                         *)
RECURSIVE SignedIn(_, _)
SignedIn(st, k) ==
    IF k = 0 THEN {st}
    ELSE UNION { UNION { { verified.st :
                           verified \in Verify2Fa_dispatch(login.st, RaceRequest(1),
                                                           (k - 1) * SessionStep,
                                                           MIN_LOCK_TIME, k) } :
                         login \in Login_dispatch(before, RaceLogin, (k - 1) * SessionStep,
                                                  1, RANDOM_WAIT_MIN) } :
                 before \in SignedIn(st, k - 1) }

(* The tables m verify-otp requests with a wrong code at time t may leave,   *)
(* starting from one of tables.                                              *)
RECURSIVE Mismatched(_, _, _)
Mismatched(tables, m, t) ==
    IF m = 0 THEN tables
    ELSE UNION { { o.st : o \in Verify2Fa_dispatch(before, RaceRequest(WrongCode), t,
                                                   MIN_LOCK_TIME, 0) } :
                 before \in Mismatched(tables, m - 1, t) }

(* The tables that n verifications of the user, handled one after the       *)
(* other at time t, may leave: each enforces the limit and then inserts.     *)
RECURSIVE AdmittedSerially(_, _, _, _, _)
AdmittedSerially(rows, user, n, t, first_id) ==
    IF n = 0 THEN {rows}
    ELSE UNION { AdmittedSerially(
                     kept \cup { NewTrustedDevice(user, first_id, parse_user_agent(""),
                                                  SessionIP, t) },
                     user, n - 1, t, first_id + 1) :
                 kept \in enforce_session_limits(rows, user) }

(* save(update_fields=fields) of the instance self onto the stored row. *)
save_update_fields(row, self, fields) ==
    [f \in DOMAIN row |-> IF f \in fields THEN self[f] ELSE row[f]]

(* The update_fields of the save verify_token made, if it made one. *)
verify_token_update_fields(self, r) ==
    IF r.self = self THEN {}
    ELSE IF ~r.result.error THEN {"used", "failed_attempts", "lock_until", "otp_encrypted"}
    ELSE IF r.result.kind = "LOCKED" THEN {"failed_attempts", "lock_until"}
    ELSE {"failed_attempts"}

NoHistRace(st) ==
    [ start      |-> st,                       \* the tables when the requests arrive
      reqs       |-> <<>>,                     \* worker -> its latest request
      handled    |-> [w \in Workers |-> 0],    \* the requests each worker has answered
      mismatches |-> 0,                        \* verify_token calls that counted a failure
      sessions   |-> 0 ]                       \* responses that carried tokens

(* The requests a worker handles. *)
RequestsPerWorker == 1

(* How long after the login the concurrent requests arrive: when the         *)
(* throttle histories of the login's instant have run out, and when the      *)
(* code is at its expiry and the blocklist cache entry has run out too.      *)
RaceDelays == {ThrottleRates.otp[2], CODE_VALID_FOR_SECONDS}

(* alice has signed in k times, has logged in once more at time t0, and has  *)
(* submitted m wrong codes since: as many as the otp throttle allows at t0,  *)
(* the others at the instant the concurrent requests arrive.                 *)
InitRace ==
    \E k \in 0..MaxSignIns, m \in 0..MaxMismatches, delay \in RaceDelays :
        LET zero == [ users |-> [InitUsers EXCEPT !["alice"].has_changed_password = TRUE],
                      otp_devices |-> <<>>, trusted_devices |-> {},
                      blocked_ips |-> <<>>, cache |-> <<>>,
                      secret_key |-> DeployedKey ]
            t0 == k * SessionStep
            early == Min(m, ThrottleRates.otp[1])
        IN  \E before \in SignedIn(zero, k) :
            \E login \in Login_dispatch(before, RaceLogin, t0, 1, RANDOM_WAIT_MIN) :
            \E first \in Mismatched({login.st}, early, t0) :
            \E late \in Mismatched({first}, m - early, t0 + delay) :
            LET st == [late EXCEPT !.cache = CacheExpire(@, t0 + delay)]
            IN  /\ now = t0 + delay
                /\ DJANGO_SECRET_KEY = DeployedKey
                /\ users = st.users
                /\ otp_devices = st.otp_devices
                /\ trusted_devices = st.trusted_devices
                /\ blocked_ips = st.blocked_ips
                /\ cache = st.cache
                /\ next_device_id = k
                /\ response = NoResponse
                /\ in_flight = <<>>
                /\ hist = NoHistRace(st)

(* Worker w answers its request with resp; h is hist as the step leaves it   *)
(* otherwise.                                                                *)
Answers(w, resp, h) ==
    /\ response' = resp
    /\ in_flight' = [v \in DOMAIN in_flight \ {w} |-> in_flight[v]]
    /\ hist' = [h EXCEPT !.handled[w] = @ + 1,
                         !.sessions = IF resp.tokens THEN @ + 1 ELSE @]

(* Worker w goes on to the step pc of its request, with the fields given. *)
GoesOn(w, at) ==
    /\ in_flight' = (w :> at) @@ in_flight
    /\ UNCHANGED response

Forbidden(req) == Response("verify_otp", req, 403, "FORBIDDEN", FALSE, NoDeviceId, None)

(* A worker takes a request.  IPBlockMiddleware.process_request calls        *)
(* is_ip_in_db_blocklist, which begins with cache.get(cache_key): a hit      *)
(* decides, a miss goes on to the query.                                     *)
Receive(w) ==
    /\ w \notin DOMAIN in_flight
    /\ hist.handled[w] < RequestsPerWorker
    /\ \E otp_code \in Codes :
        LET req == RaceRequest(otp_code)
            h == [hist EXCEPT !.reqs = (w :> req) @@ @]
        IN  IF CacheHas(cache, now, BlockedKey(req.ip))
            THEN IF cache[BlockedKey(req.ip)].value
                 THEN Answers(w, Forbidden(req), h)
                 ELSE /\ GoesOn(w, [ pc |-> "throttle_get", req |-> req, i |-> 1,
                                     refused |-> FALSE ])
                      /\ hist' = h
            ELSE /\ GoesOn(w, [ pc |-> "blocked_query", req |-> req ])
                 /\ hist' = h
    /\ UNCHANGED <<DJANGO_SECRET_KEY, now, users, otp_devices, trusted_devices, blocked_ips,
                   cache, next_device_id>>

(* BlockedIP.objects.filter(blocked_ip=ip_address, is_blocked=True).exists() *)
BlockedQuery(w) ==
    /\ w \in DOMAIN in_flight
    /\ in_flight[w].pc = "blocked_query"
    /\ GoesOn(w, [ pc |-> "blocked_set", req |-> in_flight[w].req,
                   is_blocked |-> DbBlocked(blocked_ips, in_flight[w].req.ip) ])
    /\ UNCHANGED <<DJANGO_SECRET_KEY, now, users, otp_devices, trusted_devices, blocked_ips,
                   cache, next_device_id, hist>>

(* cache.set(cache_key, is_blocked, timeout=300); the middleware answers 403 *)
(* or lets the request through to the view's throttles.                      *)
BlockedCacheSet(w) ==
    /\ w \in DOMAIN in_flight
    /\ in_flight[w].pc = "blocked_set"
    /\ LET req == in_flight[w].req
       IN  /\ cache' = CacheSet(cache, now, BlockedKey(req.ip), in_flight[w].is_blocked,
                                BLOCKED_CACHE_TIMEOUT)
           /\ IF in_flight[w].is_blocked
              THEN Answers(w, Forbidden(req), hist)
              ELSE /\ GoesOn(w, [ pc |-> "throttle_get", req |-> req, i |-> 1,
                                  refused |-> FALSE ])
                   /\ UNCHANGED hist
    /\ UNCHANGED <<DJANGO_SECRET_KEY, now, users, otp_devices, trusted_devices, blocked_ips,
                   next_device_id>>

(* check_throttles goes on after throttle i: to the next throttle, or, all   *)
(* of them asked, to the 429 of the exception handler if one refused, or to  *)
(* post().                                                                   *)
AfterThrottle(w, i, refused) ==
    LET req == in_flight[w].req
    IN  IF i < Len(Throttles("verify_otp"))
        THEN /\ GoesOn(w, [ pc |-> "throttle_get", req |-> req, i |-> i + 1,
                            refused |-> refused ])
             /\ UNCHANGED hist
        ELSE IF refused
        THEN Answers(w, Response("verify_otp", req, 429, "THROTTLED", FALSE, NoDeviceId,
                                 None), hist)
        ELSE /\ GoesOn(w, [ pc |-> "get", req |-> req ])
             /\ UNCHANGED hist

(* allow_request of throttle i: self.history = self.cache.get(self.key, []), *)
(* the old times dropped, and the decision.                                  *)
ThrottleGet(w) ==
    /\ w \in DOMAIN in_flight
    /\ in_flight[w].pc = "throttle_get"
    /\ LET req == in_flight[w].req
           i == in_flight[w].i
           scope == Throttles("verify_otp")[i]
           history == ThrottleHistory(cache, now, scope, req.ip)
       IN  IF Len(history) >= ThrottleRates[scope][1]
           THEN AfterThrottle(w, i, TRUE)
           ELSE /\ GoesOn(w, [ pc |-> "throttle_set", req |-> req, i |-> i,
                               refused |-> in_flight[w].refused, history |-> history ])
                /\ UNCHANGED hist
    /\ UNCHANGED <<DJANGO_SECRET_KEY, now, users, otp_devices, trusted_devices, blocked_ips,
                   cache, next_device_id>>

(* throttle_success: self.history.insert(0, self.now) and                    *)
(* self.cache.set(self.key, self.history, self.duration).                    *)
ThrottleSet(w) ==
    /\ w \in DOMAIN in_flight
    /\ in_flight[w].pc = "throttle_set"
    /\ LET req == in_flight[w].req
           i == in_flight[w].i
           scope == Throttles("verify_otp")[i]
       IN  /\ cache' = CacheSet(cache, now, ThrottleKey(scope, req.ip),
                                <<now>> \o in_flight[w].history, ThrottleRates[scope][2])
           /\ AfterThrottle(w, i, in_flight[w].refused)
    /\ UNCHANGED <<DJANGO_SECRET_KEY, now, users, otp_devices, trusted_devices, blocked_ips,
                   next_device_id>>

(* AdvancedOTPDevice.objects.select_related("user").get(...); DoesNotExist   *)
(* is answered 400.                                                          *)
GetDevice(w) ==
    /\ w \in DOMAIN in_flight
    /\ in_flight[w].pc = "get"
    /\ LET req == in_flight[w].req
       IN  IF req.email \in DOMAIN otp_devices
           THEN /\ GoesOn(w, [ pc |-> "verify_token", req |-> req,
                               device |-> otp_devices[req.email] ])
                /\ UNCHANGED hist
           ELSE Answers(w, Response("verify_otp", req, 400, "NO_DEVICE", FALSE, NoDeviceId,
                                    None), hist)
    /\ UNCHANGED <<DJANGO_SECRET_KEY, now, users, otp_devices, trusted_devices, blocked_ips,
                   cache, next_device_id>>

(* device.verify_token(code) on the instance loaded, with its save; an error *)
(* is answered 400.                                                          *)
VerifyTokenOnInstance(w) ==
    /\ w \in DOMAIN in_flight
    /\ in_flight[w].pc = "verify_token"
    /\ LET req == in_flight[w].req
           self == in_flight[w].device
           r == verify_token(self, now, req.otp_code, MIN_LOCK_TIME, DJANGO_SECRET_KEY)
           fields == verify_token_update_fields(self, r)
           h == [hist EXCEPT !.mismatches =
                    IF r.self.failed_attempts = self.failed_attempts + 1 THEN @ + 1 ELSE @]
       IN  /\ otp_devices' = [otp_devices EXCEPT ![req.email] =
                                save_update_fields(@, r.self, fields)]
           /\ IF r.result.error
              THEN Answers(w, Response("verify_otp", req, 400, r.result.kind,
                                       FALSE, NoDeviceId, None), h)
              ELSE /\ GoesOn(w, [ pc |-> "enforce", req |-> req ])
                   /\ hist' = h
    /\ UNCHANGED <<DJANGO_SECRET_KEY, now, users, trusted_devices, blocked_ips, cache,
                   next_device_id>>

(* enforce_session_limits: active_devices.count() > max_sessions *)
EnforceCount(w) ==
    /\ w \in DOMAIN in_flight
    /\ in_flight[w].pc = "enforce"
    /\ LET req == in_flight[w].req
       IN  IF Cardinality(ActiveDevices(trusted_devices, req.email)) > MAX_SESSIONS
           THEN GoesOn(w, [ pc |-> "enforce_excess", req |-> req ])
           ELSE GoesOn(w, [ pc |-> "create", req |-> req ])
    /\ UNCHANGED <<DJANGO_SECRET_KEY, now, users, otp_devices, trusted_devices, blocked_ips,
                   cache, next_device_id, hist>>

(* excess_count = active_devices.count() - max_sessions: a second count *)
EnforceExcess(w) ==
    /\ w \in DOMAIN in_flight
    /\ in_flight[w].pc = "enforce_excess"
    /\ LET req == in_flight[w].req
       IN  GoesOn(w, [ pc |-> "enforce_ids", req |-> req,
                       excess_count |-> Cardinality(ActiveDevices(trusted_devices, req.email))
                                          - MAX_SESSIONS ])
    /\ UNCHANGED <<DJANGO_SECRET_KEY, now, users, otp_devices, trusted_devices, blocked_ips,
                   cache, next_device_id, hist>>

(* list(active_devices.order_by("last_login").values_list("id",              *)
(* flat=True)[:excess_count]): the first excess_count rows by last_login,    *)
(* rows with equal last_login in an order the database chooses.  A slice     *)
(* with a negative bound raises, and the request ends in a 500.              *)
EnforceIds(w) ==
    /\ w \in DOMAIN in_flight
    /\ in_flight[w].pc = "enforce_ids"
    /\ LET req == in_flight[w].req
           excess_count == in_flight[w].excess_count
           active == ActiveDevices(trusted_devices, req.email)
       IN  IF excess_count < 0
           THEN Answers(w, Response("verify_otp", req, 500, "SERVER_ERROR", FALSE,
                                    NoDeviceId, None), hist)
           ELSE /\ \E X \in SUBSET active :
                     /\ Cardinality(X) = Min(excess_count, Cardinality(active))
                     /\ \A x \in X, y \in active \ X : x.last_login <= y.last_login
                     /\ IF X = {}
                        THEN GoesOn(w, [ pc |-> "create", req |-> req ])
                        ELSE GoesOn(w, [ pc |-> "enforce_delete", req |-> req,
                                         devices_to_remove_ids |->
                                             {x.device_id : x \in X} ])
                /\ UNCHANGED hist
    /\ UNCHANGED <<DJANGO_SECRET_KEY, now, users, otp_devices, trusted_devices, blocked_ips,
                   cache, next_device_id>>

(* cls.objects.filter(id__in=devices_to_remove_ids).delete() *)
EnforceDelete(w) ==
    /\ w \in DOMAIN in_flight
    /\ in_flight[w].pc = "enforce_delete"
    /\ trusted_devices' = { d \in trusted_devices :
                              d.device_id \notin in_flight[w].devices_to_remove_ids }
    /\ GoesOn(w, [ pc |-> "create", req |-> in_flight[w].req ])
    /\ UNCHANGED <<DJANGO_SECRET_KEY, now, users, otp_devices, blocked_ips, cache,
                   next_device_id, hist>>

(* TrustedDevice.objects.create(...), and the response with the tokens. *)
CreateDevice(w) ==
    /\ w \in DOMAIN in_flight
    /\ in_flight[w].pc = "create"
    /\ LET req == in_flight[w].req
           device_id == next_device_id + 1
       IN  /\ trusted_devices' = trusted_devices \cup
                 { NewTrustedDevice(req.email, device_id, parse_user_agent(req.ua),
                                    req.ip, now) }
           /\ next_device_id' = device_id
           /\ Answers(w, Response("verify_otp", req, 200, "VERIFIED", TRUE, device_id, None),
                      hist)
    /\ UNCHANGED <<DJANGO_SECRET_KEY, now, users, otp_devices, blocked_ips, cache>>

NextRace ==
    \E w \in Workers :
        \/ Receive(w)
        \/ BlockedQuery(w)
        \/ BlockedCacheSet(w)
        \/ ThrottleGet(w)
        \/ ThrottleSet(w)
        \/ GetDevice(w)
        \/ VerifyTokenOnInstance(w)
        \/ EnforceCount(w)
        \/ EnforceExcess(w)
        \/ EnforceIds(w)
        \/ EnforceDelete(w)
        \/ CreateDevice(w)

SpecRace == InitRace /\ [][NextRace]_vars

-----------------------------------------------------------------------------
(* SpecLookups: is_ip_in_db_blocklist run by two workers, its cache.get, its *)
(* query and its cache.set being separate round trips that interleave.       *)

MaxTimeLookups == 600

(* hist.lookups[ip]: the queries of the BlockedIP table made for ip since    *)
(* the last expiry of a cache entry of ip (since the start, if none yet).    *)
NoHistLookups == [ lookups |-> [ip \in IPs |-> 0] ]

(* The table at the start: any set of IPs permanently blocked. *)
InitLookups ==
    /\ now = 0
    /\ DJANGO_SECRET_KEY = DeployedKey
    /\ users = InitUsers
    /\ otp_devices = <<>>
    /\ trusted_devices = {}
    /\ \E S \in SUBSET IPs : blocked_ips = [ip \in S |-> [is_blocked |-> TRUE]]
    /\ cache = <<>>
    /\ next_device_id = 0
    /\ response = NoResponse
    /\ in_flight = <<>>
    /\ hist = NoHistLookups

(* cache.get(cache_key): a hit is returned, a miss goes on to the query. *)
LookupCacheGet(w) ==
    /\ w \notin DOMAIN in_flight
    /\ \E ip \in IPs :
          IF CacheHas(cache, now, BlockedKey(ip))
          THEN /\ response' = [ op |-> "is_ip_in_db_blocklist", ip |-> ip,
                                is_blocked |-> cache[BlockedKey(ip)].value ]
               /\ UNCHANGED in_flight
          ELSE /\ in_flight' = (w :> [ pc |-> "query", ip |-> ip ]) @@ in_flight
               /\ UNCHANGED response
    /\ UNCHANGED <<DJANGO_SECRET_KEY, now, users, otp_devices, trusted_devices, blocked_ips, cache,
                   next_device_id, hist>>

(* BlockedIP.objects.filter(blocked_ip=ip_address, is_blocked=True).exists() *)
LookupQuery(w) ==
    /\ w \in DOMAIN in_flight
    /\ in_flight[w].pc = "query"
    /\ in_flight' = [in_flight EXCEPT ![w] =
                       [ pc |-> "set", ip |-> @.ip,
                         is_blocked |-> DbBlocked(blocked_ips, @.ip) ]]
    /\ hist' = [hist EXCEPT !.lookups[in_flight[w].ip] =
                              Min(@ + 1, Cardinality(Workers))]
    /\ UNCHANGED <<DJANGO_SECRET_KEY, now, users, otp_devices, trusted_devices, blocked_ips, cache,
                   next_device_id, response>>

(* cache.set(cache_key, is_blocked, timeout=300), and the return. *)
LookupCacheSet(w) ==
    /\ w \in DOMAIN in_flight
    /\ in_flight[w].pc = "set"
    /\ cache' = CacheSet(cache, now, BlockedKey(in_flight[w].ip),
                         in_flight[w].is_blocked, BLOCKED_CACHE_TIMEOUT)
    /\ response' = [ op |-> "is_ip_in_db_blocklist", ip |-> in_flight[w].ip,
                     is_blocked |-> in_flight[w].is_blocked ]
    /\ in_flight' = [v \in DOMAIN in_flight \ {w} |-> in_flight[v]]
    /\ UNCHANGED <<DJANGO_SECRET_KEY, now, users, otp_devices, trusted_devices, blocked_ips,
                   next_device_id, hist>>

TickLookups ==
    /\ \E d \in TimeStepsMain : Advance(d, MaxTimeLookups)
    /\ hist' = [hist EXCEPT !.lookups =
                  [ip \in IPs |-> IF /\ BlockedKey(ip) \in DOMAIN cache
                                     /\ BlockedKey(ip) \notin DOMAIN cache'
                                  THEN 0 ELSE @[ip]]]

NextLookups ==
    \/ \E w \in Workers : LookupCacheGet(w) \/ LookupQuery(w) \/ LookupCacheSet(w)
    \/ TickLookups

SpecLookups == InitLookups /\ [][NextLookups]_vars

-----------------------------------------------------------------------------
(* SpecAccounts: logins for two accounts in every standing (active or        *)
(* deactivated, initial password changed or not), with trusted devices of    *)
(* both, presented by either, while devices are deactivated from outside.    *)

MaxDeviceIdsAccounts == 3

MaxRequestsAccounts == 3

(* The trusted devices at the start, remembered at time 0: device 1 of       *)
(* alice and device 2 of bob.                                                *)
AccountRows ==
    { NewTrustedDevice(user, device_id, parse_user_agent("Chrome/Windows"), SessionIP, 0) :
        <<user, device_id>> \in {<<"alice", 1>>, <<"bob", 2>>} }

(* Only an account that has changed its initial password has signed in. *)
InitAccounts ==
    /\ now = 0
    /\ DJANGO_SECRET_KEY = DeployedKey
    /\ \E active \in [Users -> BOOLEAN], changed \in [Users -> BOOLEAN] :
          /\ users = [u \in Users |->
                        [ password |-> "secret", has_changed_password |-> changed[u],
                          is_active |-> active[u] ]]
          /\ trusted_devices = {d \in AccountRows : changed[d.user]}
    /\ otp_devices = <<>>
    /\ blocked_ips = <<>>
    /\ cache = <<>>
    /\ next_device_id = Cardinality(AccountRows)
    /\ response = NoResponse
    /\ in_flight = <<>>
    /\ hist = NoHistIp

LoginAccounts ==
    LoginRequest({SessionIP}, {"Chrome/Windows"}, Users, {"secret"},
                 {NoDeviceId} \cup 1..next_device_id, {1}, {RANDOM_WAIT_MIN},
                 MaxRequestsAccounts)

Verify2FaAccounts ==
    Verify2FaRequest({SessionIP}, {"Chrome/Windows"}, {"alice"}, {1}, {MIN_LOCK_TIME},
                     MaxDeviceIdsAccounts, MaxRequestsAccounts)

TickAccounts ==
    /\ \E t \in TimesDevices : t > now /\ Advance(t - now, MaxTimeDevices)
    /\ hist' = StreaksAt(now')

(* TrustedDevice.deactivate() on one of the rows, run from outside the       *)
(* views: is_active = False and save(update_fields=["is_active"]).           *)
Deactivate ==
    \E d \in trusted_devices :
        /\ trusted_devices' = deactivate(trusted_devices, d)
        /\ response' = [ op |-> "deactivate", device_id |-> d.device_id ]
        /\ UNCHANGED <<DJANGO_SECRET_KEY, now, users, otp_devices, blocked_ips, cache,
                       next_device_id, in_flight, hist>>

NextAccounts ==
    LoginAccounts \/ Verify2FaAccounts \/ CleanupExpiredDevices \/ Deactivate \/ TickAccounts

SpecAccounts == InitAccounts /\ [][NextAccounts]_vars

-----------------------------------------------------------------------------
(* Concurrent block_ip calls.  Every cache command and every query of a     *)
(* call is a step of its own, and nothing joins them: the three round trips  *)
(* of is_ip_in_db_blocklist, cache.incr and the cache.set that follows its   *)
(* ValueError, and in permanently_block_ip the SELECT and INSERT of          *)
(* get_or_create, the save(), cache.set and cache.delete.                    *)

MaxRecorded == 6

(* hist.lookups as in SpecLookups; hist.reported: the IPs block_ip has       *)
(* answered 403 for; hist.recorded[ip]: the block_ip calls for ip that found *)
(* it not blocked and went on to count.                                      *)
NoHistBlockRace ==
    [ lookups |-> [ip \in IPs |-> 0], reported |-> {}, recorded |-> [ip \in IPs |-> 0] ]

(* The table at the start: no row, or a row an administrator unblocked. *)
InitBlockRace ==
    /\ now = 0
    /\ DJANGO_SECRET_KEY = DeployedKey
    /\ users = InitUsers
    /\ otp_devices = <<>>
    /\ trusted_devices = {}
    /\ \E S \in SUBSET {SessionIP} : blocked_ips = [ip \in S |-> [is_blocked |-> FALSE]]
    /\ cache = <<>>
    /\ next_device_id = 0
    /\ response = NoResponse
    /\ in_flight = <<>>
    /\ hist = NoHistBlockRace

(* block_ip of worker w returns: status is that of its JsonResponse, Proceed *)
(* for None; h is hist as the step leaves it otherwise.                      *)
BlockIpReturns(w, ip, status, h) ==
    /\ response' = [ op |-> "block_ip", ip |-> ip, status |-> status ]
    /\ in_flight' = [v \in DOMAIN in_flight \ {w} |-> in_flight[v]]
    /\ hist' = [h EXCEPT !.reported = IF status = 403 THEN @ \cup {ip} ELSE @]

(* is_ip_in_db_blocklist answered False: block_ip goes on to count. *)
BlockIpCounts(w, ip) ==
    /\ GoesOn(w, [ pc |-> "incr", ip |-> ip ])
    /\ hist' = [hist EXCEPT !.recorded[ip] = @ + 1]

(* increment_attempts_in_redis returned attempts: permanently_block_ip if    *)
(* attempts >= MAX_ATTEMPTS, None otherwise.                                 *)
BlockIpDecides(w, ip, attempts) ==
    IF attempts >= MAX_ATTEMPTS
    THEN /\ GoesOn(w, [ pc |-> "get_or_create", ip |-> ip ])
         /\ UNCHANGED hist
    ELSE BlockIpReturns(w, ip, Proceed, hist)

(* A worker begins block_ip(request) for one of ips: is_ip_in_db_blocklist   *)
(* starts with cache.get(cache_key); a hit decides, a miss goes on to the    *)
(* query.                                                                    *)
CountStart(w, ips) ==
    /\ w \notin DOMAIN in_flight
    /\ \E ip \in ips :
        /\ hist.recorded[ip] < MaxRecorded
        /\ IF CacheHas(cache, now, BlockedKey(ip))
           THEN IF cache[BlockedKey(ip)].value
                THEN BlockIpReturns(w, ip, 403, hist)
                ELSE BlockIpCounts(w, ip)
           ELSE /\ GoesOn(w, [ pc |-> "check_query", ip |-> ip ])
                /\ UNCHANGED hist
    /\ UNCHANGED <<DJANGO_SECRET_KEY, now, users, otp_devices, trusted_devices, blocked_ips, cache,
                   next_device_id>>

(* BlockedIP.objects.filter(blocked_ip=ip_address, is_blocked=True).exists() *)
CountCheckQuery(w) ==
    /\ w \in DOMAIN in_flight
    /\ in_flight[w].pc = "check_query"
    /\ GoesOn(w, [ pc |-> "check_set", ip |-> in_flight[w].ip,
                   is_blocked |-> DbBlocked(blocked_ips, in_flight[w].ip) ])
    /\ UNCHANGED <<DJANGO_SECRET_KEY, now, users, otp_devices, trusted_devices, blocked_ips, cache,
                   next_device_id, hist>>

(* cache.set(cache_key, is_blocked, timeout=300) with what the query gave;   *)
(* block_ip answers 403 if that is True and goes on to count otherwise.      *)
CountCheckCacheSet(w) ==
    /\ w \in DOMAIN in_flight
    /\ in_flight[w].pc = "check_set"
    /\ LET ip == in_flight[w].ip
       IN  /\ cache' = CacheSet(cache, now, BlockedKey(ip), in_flight[w].is_blocked,
                                BLOCKED_CACHE_TIMEOUT)
           /\ IF in_flight[w].is_blocked
              THEN BlockIpReturns(w, ip, 403, hist)
              ELSE BlockIpCounts(w, ip)
    /\ UNCHANGED <<DJANGO_SECRET_KEY, now, users, otp_devices, trusted_devices, blocked_ips,
                   next_device_id>>

(* cache.incr(key): the new count, or ValueError when the key is not there. *)
CountIncr(w) ==
    /\ w \in DOMAIN in_flight
    /\ in_flight[w].pc = "incr"
    /\ LET ip == in_flight[w].ip
           key == AttemptsKey(ip)
       IN  IF CacheHas(cache, now, key)
           THEN /\ cache' = [cache EXCEPT ![key].value = @ + 1]
                /\ BlockIpDecides(w, ip, cache[key].value + 1)
           ELSE /\ GoesOn(w, [ pc |-> "incr_set", ip |-> ip ])
                /\ UNCHANGED <<cache, hist>>
    /\ UNCHANGED <<DJANGO_SECRET_KEY, now, users, otp_devices, trusted_devices, blocked_ips,
                   next_device_id>>

(* except ValueError: cache.set(key, 1, timeout=REDIS_EXPIRE_SECONDS) *)
CountSet(w) ==
    /\ w \in DOMAIN in_flight
    /\ in_flight[w].pc = "incr_set"
    /\ cache' = CacheSet(cache, now, AttemptsKey(in_flight[w].ip), 1, REDIS_EXPIRE_SECONDS)
    /\ BlockIpDecides(w, in_flight[w].ip, 1)
    /\ UNCHANGED <<DJANGO_SECRET_KEY, now, users, otp_devices, trusted_devices, blocked_ips,
                   next_device_id>>

(* permanently_block_ip: the get() of get_or_create.  A row that is there is *)
(* not created: it is saved if it is not blocked.  No row: the INSERT.       *)
PermanentlyBlockGet(w) ==
    /\ w \in DOMAIN in_flight
    /\ in_flight[w].pc = "get_or_create"
    /\ LET ip == in_flight[w].ip
       IN  GoesOn(w, [ pc |-> IF ip \notin DOMAIN blocked_ips THEN "insert"
                              ELSE IF ~blocked_ips[ip].is_blocked THEN "save"
                              ELSE "cache_set",
                       ip |-> ip ])
    /\ UNCHANGED <<DJANGO_SECRET_KEY, now, users, otp_devices, trusted_devices, blocked_ips, cache,
                   next_device_id, hist>>

(* The create() of get_or_create.  blocked_ip is unique: when the row has    *)
(* been inserted since the get(), the INSERT raises IntegrityError and       *)
(* get_or_create runs its get() again.                                       *)
PermanentlyBlockInsert(w) ==
    /\ w \in DOMAIN in_flight
    /\ in_flight[w].pc = "insert"
    /\ LET ip == in_flight[w].ip
       IN  IF ip \in DOMAIN blocked_ips
           THEN /\ GoesOn(w, [ pc |-> "get_or_create", ip |-> ip ])
                /\ UNCHANGED blocked_ips
           ELSE /\ blocked_ips' = (ip :> [is_blocked |-> TRUE]) @@ blocked_ips
                /\ GoesOn(w, [ pc |-> "cache_set", ip |-> ip ])
    /\ UNCHANGED <<DJANGO_SECRET_KEY, now, users, otp_devices, trusted_devices, cache,
                   next_device_id, hist>>

(* blocked_ip_obj.is_blocked = True; blocked_ip_obj.save() *)
PermanentlyBlockSave(w) ==
    /\ w \in DOMAIN in_flight
    /\ in_flight[w].pc = "save"
    /\ blocked_ips' = [blocked_ips EXCEPT ![in_flight[w].ip].is_blocked = TRUE]
    /\ GoesOn(w, [ pc |-> "cache_set", ip |-> in_flight[w].ip ])
    /\ UNCHANGED <<DJANGO_SECRET_KEY, now, users, otp_devices, trusted_devices, cache,
                   next_device_id, hist>>

(* cache.set(cache_key, True, timeout=300) *)
PermanentlyBlockCacheSet(w) ==
    /\ w \in DOMAIN in_flight
    /\ in_flight[w].pc = "cache_set"
    /\ cache' = CacheSet(cache, now, BlockedKey(in_flight[w].ip), TRUE,
                         BLOCKED_CACHE_TIMEOUT)
    /\ GoesOn(w, [ pc |-> "reset", ip |-> in_flight[w].ip ])
    /\ UNCHANGED <<DJANGO_SECRET_KEY, now, users, otp_devices, trusted_devices, blocked_ips,
                   next_device_id, hist>>

(* reset_attempts_in_redis: cache.delete(key); block_ip answers 403. *)
ResetAttempts(w) ==
    /\ w \in DOMAIN in_flight
    /\ in_flight[w].pc = "reset"
    /\ cache' = reset_attempts_in_redis(cache, in_flight[w].ip)
    /\ BlockIpReturns(w, in_flight[w].ip, 403, hist)
    /\ UNCHANGED <<DJANGO_SECRET_KEY, now, users, otp_devices, trusted_devices, blocked_ips,
                   next_device_id>>

-----------------------------------------------------------------------------
(* SpecBlockRace: a worker runs block_ip calls for one IP while two others   *)
(* run is_ip_in_db_blocklist, as the middleware does for every request.      *)

BlockRaceWorker == 3

NextBlockRace ==
    \/ NextLookups
    \/ CountStart(BlockRaceWorker, {SessionIP})
    \/ CountCheckQuery(BlockRaceWorker)
    \/ CountCheckCacheSet(BlockRaceWorker)
    \/ CountIncr(BlockRaceWorker)
    \/ CountSet(BlockRaceWorker)
    \/ PermanentlyBlockGet(BlockRaceWorker)
    \/ PermanentlyBlockInsert(BlockRaceWorker)
    \/ PermanentlyBlockSave(BlockRaceWorker)
    \/ PermanentlyBlockCacheSet(BlockRaceWorker)
    \/ ResetAttempts(BlockRaceWorker)

SpecBlockRace == InitBlockRace /\ [][NextBlockRace]_vars

-----------------------------------------------------------------------------
(* SpecCountRace: block_ip run by two workers at once, in the same counter   *)
(* window.                                                                   *)

InitCountRace == InitBlockRace

NextCountRace ==
    \E w \in Workers :
        \/ CountStart(w, IPs)
        \/ CountCheckQuery(w)
        \/ CountCheckCacheSet(w)
        \/ CountIncr(w)
        \/ CountSet(w)
        \/ PermanentlyBlockGet(w)
        \/ PermanentlyBlockInsert(w)
        \/ PermanentlyBlockSave(w)
        \/ PermanentlyBlockCacheSet(w)
        \/ ResetAttempts(w)

SpecCountRace == InitCountRace /\ [][NextCountRace]_vars

-----------------------------------------------------------------------------
(* SpecSuspend: alice signs in with a one-time code while an administrator   *)
(* suspends and reinstates her account between her requests.                 *)

MaxTimeSuspend == 120

MaxDeviceIdsSuspend == 2

MaxRequestsSuspend == 8

InitSuspend ==
    /\ now = 0
    /\ DJANGO_SECRET_KEY = DeployedKey
    /\ users = [InitUsers EXCEPT !["alice"].has_changed_password = TRUE]
    /\ otp_devices = <<>>
    /\ trusted_devices = {}
    /\ blocked_ips = <<>>
    /\ cache = <<>>
    /\ next_device_id = 0
    /\ response = NoResponse
    /\ in_flight = <<>>
    /\ hist = NoHistIp

LoginSuspend ==
    LoginRequest({SessionIP}, {"Chrome/Windows"}, {"alice"}, {"secret"},
                 {NoDeviceId} \cup 1..next_device_id, {1}, {RANDOM_WAIT_MIN},
                 MaxRequestsSuspend)

Verify2FaSuspend ==
    Verify2FaRequest({SessionIP}, {"Chrome/Windows"}, {"alice"}, Codes, {MIN_LOCK_TIME},
                     MaxDeviceIdsSuspend, MaxRequestsSuspend)

(* User.is_active is written outside the views: the account is suspended,    *)
(* or reinstated.                                                            *)
SetActive ==
    \E is_active \in BOOLEAN :
        /\ users["alice"].is_active # is_active
        /\ users' = [users EXCEPT !["alice"].is_active = is_active]
        /\ response' = NoResponse
        /\ UNCHANGED <<DJANGO_SECRET_KEY, now, otp_devices, trusted_devices, blocked_ips, cache,
                       next_device_id, in_flight, hist>>

TickSuspend ==
    /\ Advance(BASE_COOLDOWN, MaxTimeSuspend)
    /\ hist' = StreaksAt(now')

NextSuspend == LoginSuspend \/ Verify2FaSuspend \/ SetActive \/ TickSuspend

SpecSuspend == InitSuspend /\ [][NextSuspend]_vars

-----------------------------------------------------------------------------
(* Properties of the OTP device (SpecOtp) *)

Dev == otp_devices[OtpUser]

(* The code of Dev is outstanding: stored, not used, and not expired. *)
Outstanding == /\ Dev.otp_encrypted # NoCiphertext
               /\ ~Dev.used
               /\ now <= Dev.otp_expiry

Locked == Dev.lock_until # None /\ now < Dev.lock_until

(* C1: after max_failed_attempts consecutive mismatched verify_token calls  *)
(* against an outstanding unexpired code, lock_until is set to a future     *)
(* time; and every verify_token call made while now < lock_until, also one  *)
(* with the correct code, is rejected and leaves failed_attempts (indeed    *)
(* the whole row) unchanged.                                                 *)
C1_LockoutRejectsEveryCode ==
    /\ [](response.op = "verify_token" /\ hist.mismatch_run >= Dev.max_failed_attempts
            => Dev.lock_until # None /\ Dev.lock_until > now)
    /\ [][response'.op = "verify_token" /\ Locked
            => /\ response'.result.error
               /\ response'.result.kind = "LOCKED"
               /\ otp_devices'[OtpUser] = Dev]_vars

(* The correct code of an outstanding, unexpired code has just been         *)
(* rejected because the device is locked after the maximum of failures.      *)
C1_Witness ==
    /\ response.op = "verify_token"
    /\ response.result.kind = "LOCKED"
    /\ Outstanding
    /\ response.token = hist.last_code
    /\ Decrypt(DJANGO_SECRET_KEY, Dev.otp_encrypted) = response.token
    /\ Dev.failed_attempts = Dev.max_failed_attempts
    /\ Locked

(* C2: once a verification has succeeded, no verify_token call succeeds      *)
(* until a generate_token call has succeeded; the replay is rejected as      *)
(* ALREADY_USED or INVALID.                                                  *)
C2_SingleUse ==
    [][response'.op = "verify_token" /\ hist.consumed
          => /\ response'.result.error
             /\ response'.result.kind \in {"ALREADY_USED", "INVALID"}]_vars

(* The code that was verified has been submitted again and was rejected. *)
C2_Witness ==
    /\ response.op = "verify_token"
    /\ hist.consumed
    /\ response.token = hist.last_code
    /\ response.result.error
    /\ response.result.kind = "INVALID"

(* C3: a verification succeeds only for the code returned by the most recent *)
(* successful generation; the code of the generation before it, when         *)
(* different, is rejected, and as a counted mismatch whenever the device is  *)
(* not locked and the current code is outstanding.                           *)
C3_NewCodeInvalidatesOld ==
    /\ [](response.op = "verify_token" /\ ~response.result.error
            => response.token = hist.last_code)
    /\ [][/\ response'.op = "verify_token"
          /\ hist.prev_code # None
          /\ response'.token = hist.prev_code
          /\ hist.prev_code # hist.last_code
          => /\ response'.result.error
             /\ (Outstanding /\ ~Locked
                   => /\ response'.result.kind \in {"INVALID", "LOCKED"}
                      /\ otp_devices'[OtpUser].failed_attempts
                            = Dev.failed_attempts + 1)]_vars

(* The earlier code, still within its own validity window, has just been     *)
(* rejected as a mismatch.                                                   *)
C3_Witness ==
    /\ response.op = "verify_token"
    /\ hist.prev_code # None
    /\ hist.prev_code # hist.last_code
    /\ response.token = hist.prev_code
    /\ now <= hist.prev_expiry
    /\ response.result.kind = "INVALID"
    /\ Dev.failed_attempts = 1

(* C4: every successful generate_token sets next_allowed_request_time to     *)
(* now + base_cooldown * cooldown_multiplier^k + jitter, k being the         *)
(* failed_attempts stored when generate_token was called, also when the      *)
(* call auto-unlocks an elapsed lock.                                        *)
C4_CooldownFromStoredFailedAttempts ==
    [][response'.op = "generate_token" /\ ~response'.result.error
          => \E jitter \in RANDOM_WAIT_MIN..RANDOM_WAIT_MAX :
                otp_devices'[OtpUser].next_allowed_request_time
                    = now + BASE_COOLDOWN
                              * Pow(Dev.cooldown_multiplier, Dev.failed_attempts)
                          + jitter]_vars

-----------------------------------------------------------------------------
(* Properties of the IP pipeline (SpecIp) *)

(* C5: of five block_ip calls for the same unblocked IP within one life of   *)
(* its attempt counter, the first four report not blocked, and the fifth     *)
(* leaves the BlockedIP row with is_blocked = TRUE (created or re-flagged),  *)
(* the cache entry of the IP positive, no attempt counter, and reports       *)
(* blocked (403).                                                            *)
C5_FiveFailuresBlock ==
    response.op = "block_ip" /\ response.ip \in IPs
    => LET ip == response.ip
       IN  /\ hist.streak[ip] \in 1..(MAX_ATTEMPTS - 1) => response.status = Proceed
           /\ hist.streak[ip] <= MAX_ATTEMPTS
           /\ hist.streak[ip] = MAX_ATTEMPTS
                => /\ response.status = 403
                   /\ DbBlocked(blocked_ips, ip)
                   /\ CacheHas(cache, now, BlockedKey(ip))
                   /\ cache[BlockedKey(ip)].value = TRUE
                   /\ ~CacheHas(cache, now, AttemptsKey(ip))

(* The fifth call has just re-flagged a row that was there unblocked, some   *)
(* time after the first call of the streak.                                  *)
C5_Witness ==
    /\ response.op = "block_ip"
    /\ response.ip \in IPs
    /\ response.status = 403
    /\ hist.streak[response.ip] = MAX_ATTEMPTS
    /\ hist.window_end[response.ip] # None
    /\ hist.window_end[response.ip] < now + REDIS_EXPIRE_SECONDS
    /\ DbBlocked(blocked_ips, response.ip)
    /\ AttemptsKey(response.ip) \notin DOMAIN cache

-----------------------------------------------------------------------------
(* Properties of the login flow (Spec) *)

(* The login just answered came from a detectable IP and was not throttled:  *)
(* the middleware or the view answered it.                                   *)
LoginAnswered ==
    /\ response.op = "login"
    /\ response.req.ip \in IPs
    /\ response.outcome # "THROTTLED"

(* C6 as stated: from an IP with no recorded failures and no block, the      *)
(* first four wrong-password logins in a row (those the throttles let        *)
(* through) return 401 and the fifth returns 403.                            *)
C6_FifthWrongLoginForbidden ==
    LoginAnswered
    => LET n == hist.streak[response.req.ip]
       IN  /\ n \in 1..(MAX_ATTEMPTS - 1) => response.status = 401
           /\ n = MAX_ATTEMPTS => response.status = 403

(* C6, amended: from an IP with no recorded failures and no block, each of   *)
(* the first five wrong-password logins in a row (those the throttles let    *)
(* through) returns UNAUTHORIZED (401); the fifth leaves the IP permanently   *)
(* blocked, and the sixth is the first to return FORBIDDEN (403).            *)
C6_SixthWrongLoginForbidden ==
    LoginAnswered
    => LET ip == response.req.ip
           n == hist.streak[ip]
       IN  /\ n \in 1..MAX_ATTEMPTS
                => response.status = 401 /\ response.outcome = "UNAUTHORIZED"
           /\ n \in 1..(MAX_ATTEMPTS - 1) => ~DbBlocked(blocked_ips, ip)
           /\ n = MAX_ATTEMPTS => DbBlocked(blocked_ips, ip)
           /\ n = MAX_ATTEMPTS + 1
                => response.status = 403 /\ response.outcome = "FORBIDDEN"

(* The sixth wrong-password login in a row has just been refused. *)
C6_Witness ==
    /\ LoginAnswered
    /\ hist.streak[response.req.ip] = MAX_ATTEMPTS + 1
    /\ response.req.password # users[response.req.email].password
    /\ response.status = 403

(* The step is a login request from a detectable IP, not throttled,          *)
(* answered in response'.                                                    *)
LoginStep ==
    /\ response'.op = "login"
    /\ response'.req.ip \in IPs
    /\ response'.outcome # "THROTTLED"

(* C7: a login request from an IP that is permanently blocked, whatever its  *)
(* credentials and trusted-device identifier, is answered 403 FORBIDDEN by   *)
(* the middleware: no tokens, no OTP, and no change to the users, the OTP    *)
(* devices, the trusted devices, the blocklist or any attempt counter.       *)
C7_BlockedIpAlwaysForbidden ==
    [][ LoginStep /\ DbBlocked(blocked_ips, response'.req.ip)
          => /\ response'.status = 403
             /\ response'.outcome = "FORBIDDEN"
             /\ ~response'.tokens
             /\ response'.otp_code = None
             /\ UNCHANGED <<users, otp_devices, trusted_devices, blocked_ips,
                            next_device_id>>
             /\ \A ip \in IPs :
                  /\ AttemptsKey(ip) \in DOMAIN cache' <=> AttemptsKey(ip) \in DOMAIN cache
                  /\ AttemptsKey(ip) \in DOMAIN cache
                       => cache'[AttemptsKey(ip)] = cache[AttemptsKey(ip)] ]_vars

(* A login with the right password and the identifier of a trusted device    *)
(* of the user, active and not expired, has just been refused: its IP is     *)
(* blocked.                                                                  *)
C7_Witness ==
    /\ LoginAnswered
    /\ response.outcome = "FORBIDDEN"
    /\ DbBlocked(blocked_ips, response.req.ip)
    /\ response.req.password = users[response.req.email].password
    /\ users[response.req.email].has_changed_password
    /\ \E d \in trusted_devices :
          /\ d.device_id = response.req.trusted_device
          /\ d.user = response.req.email
          /\ d.is_active
          /\ ~is_expired(d, now)

(* C8: no step takes an IP off the blocklist: a row with is_blocked set is   *)
(* there, with is_blocked set, after every operation.                        *)
C8_NeverUnblocked ==
    [][ \A ip \in IPs : DbBlocked(blocked_ips, ip) => DbBlocked(blocked_ips', ip) ]_vars

(* Both IPs are blocked, the second one after the first, and is_blocked has  *)
(* just been asked about one of them with its cache entry expired.           *)
C8_Witness ==
    /\ \A ip \in IPs : DbBlocked(blocked_ips, ip)
    /\ response.op = "is_ip_in_db_blocklist"
    /\ response.is_blocked
    /\ cache[BlockedKey(response.ip)].expires = now + BLOCKED_CACHE_TIMEOUT
    /\ now > 0

(* The request answered in response' came from an IP that is not blocked,   *)
(* was not throttled, and is for an active account whose initial password    *)
(* has been changed.                                                         *)
ReadyAccount ==
    /\ response'.req.ip \in IPs
    /\ ~DbBlocked(blocked_ips, response'.req.ip)
    /\ response'.outcome # "THROTTLED"
    /\ users[response'.req.email].is_active
    /\ users[response'.req.email].has_changed_password

RightPassword == response'.req.password = users[response'.req.email].password

(* generate_token would issue: the account's OTP device, if it has one, is   *)
(* past its cooldown and not locked.                                         *)
MayRequestCode(user) ==
    user \in DOMAIN otp_devices
    => /\ \/ otp_devices[user].next_allowed_request_time = None
          \/ now >= otp_devices[user].next_allowed_request_time
       /\ \/ otp_devices[user].lock_until = None
          \/ now >= otp_devices[user].lock_until

(* The submitted code is the one stored for the account, not yet expired. *)
SubmitsStoredCode(user) ==
    /\ user \in DOMAIN otp_devices
    /\ otp_devices[user].otp_encrypted = Encrypt(DJANGO_SECRET_KEY, response'.req.otp_code)
    /\ now <= otp_devices[user].otp_expiry

(* The cookie names a trusted device of the account, active and not expired. *)
PresentsTrustedDevice(user) ==
    \E d \in trusted_devices :
        /\ d.device_id = response'.req.trusted_device
        /\ d.user = user
        /\ d.is_active
        /\ now <= d.expires_at

(* Login answers OTP_REQUIRED: a code is stored and handed over, no session. *)
OtpRequired(user) ==
    /\ response'.status = 200
    /\ response'.outcome = "OTP_REQUIRED"
    /\ ~response'.tokens
    /\ otp_devices'[user].otp_encrypted = Encrypt(DJANGO_SECRET_KEY, response'.otp_code)
    /\ ~otp_devices'[user].used
    /\ otp_devices'[user].otp_expiry = now + CODE_VALID_FOR_SECONDS
    /\ trusted_devices' = trusted_devices

(* Verify2Fa answers with tokens and the identifier of a new TrustedDevice. *)
SessionAndNewDevice(user) ==
    /\ response'.status = 200
    /\ response'.outcome = "VERIFIED"
    /\ response'.tokens
    /\ response'.trusted_device_id # NoDeviceId
    /\ \A d \in trusted_devices : d.device_id # response'.trusted_device_id
    /\ \E d \in trusted_devices' :
          /\ d.device_id = response'.trusted_device_id
          /\ d.user = user
          /\ d.is_active
          /\ d.expires_at = now + TRUSTED_DAYS_SECONDS

(* Login answers with tokens and leaves the OTP devices alone. *)
TrustedBypass ==
    /\ response'.status = 200
    /\ response'.outcome = "TRUSTED_BYPASS"
    /\ response'.tokens
    /\ response'.otp_code = None
    /\ otp_devices' = otp_devices

(* C9 as stated: for an active user who has changed their password, on an    *)
(* unblocked IP, a login with correct credentials and no trusted-device      *)
(* identifier returns OTP_REQUIRED; verifying the generated code within its  *)
(* validity window issues tokens and a new TrustedDevice; a login presenting *)
(* that identifier before expiry returns TRUSTED_BYPASS.                     *)
C9_FlowUnconditional ==
    [][ LET user == response'.req.email
        IN  /\ response'.op = "login" /\ ReadyAccount /\ RightPassword
               /\ response'.req.trusted_device = NoDeviceId
                 => OtpRequired(user)
            /\ response'.op = "verify_otp" /\ ReadyAccount /\ SubmitsStoredCode(user)
                 => SessionAndNewDevice(user)
            /\ response'.op = "login" /\ ReadyAccount /\ RightPassword
               /\ PresentsTrustedDevice(user)
                 => TrustedBypass ]_vars

(* C9, amended: for an active user who has changed their password, on an     *)
(* unblocked IP: a login with correct credentials and no trusted-device      *)
(* identifier, made when the user's OTP device is past its cooldown and not  *)
(* locked, returns OTP_REQUIRED, stores a code valid for five minutes and    *)
(* issues no session; verifying the stored code within its validity window,  *)
(* when it has not been used and the device is not locked, issues tokens,    *)
(* creates an active TrustedDevice of the user and returns its fresh         *)
(* identifier; a login with correct credentials presenting the identifier of *)
(* an active, unexpired TrustedDevice of the user returns TRUSTED_BYPASS     *)
(* with tokens and generates no OTP.                                         *)
C9_FlowWhenDeviceReady ==
    [][ LET user == response'.req.email
        IN  /\ response'.op = "login" /\ ReadyAccount /\ RightPassword
               /\ response'.req.trusted_device = NoDeviceId
               /\ MayRequestCode(user)
                 => OtpRequired(user)
            /\ response'.op = "verify_otp" /\ ReadyAccount /\ SubmitsStoredCode(user)
               /\ ~otp_devices[user].used
               /\ (otp_devices[user].lock_until = None
                   \/ now >= otp_devices[user].lock_until)
                 => SessionAndNewDevice(user)
            /\ response'.op = "login" /\ ReadyAccount /\ RightPassword
               /\ PresentsTrustedDevice(user)
                 => TrustedBypass ]_vars

(* The trusted device created by a verification has just let its user in     *)
(* without an OTP.                                                           *)
C9_Witness ==
    /\ LoginAnswered
    /\ response.outcome = "TRUSTED_BYPASS"
    /\ response.tokens
    /\ response.req.email \in DOMAIN otp_devices
    /\ otp_devices[response.req.email].used
    /\ \E d \in trusted_devices :
          /\ d.device_id = response.req.trusted_device
          /\ d.user = response.req.email
          /\ d.expires_at = now + TRUSTED_DAYS_SECONDS

-----------------------------------------------------------------------------
(* Properties of the sessions of one account (SpecSessions) *)

(* C10: every user has at most MAX_SESSIONS active trusted devices, also     *)
(* right after Verify2Fa has inserted its new row.                           *)
C10_AtMostFiveActiveDevices ==
    \A u \in Users : Cardinality(ActiveDevices(trusted_devices, u)) <= MAX_SESSIONS

-----------------------------------------------------------------------------
(* Properties of enforce_session_limits (SpecLimits) *)

(* C11: enforce_session_limits(user) with n active devices of the user       *)
(* deletes nothing when n <= 5; when n > 5 it deletes exactly n - 5 rows,    *)
(* all of them active devices of the user and none logged in later than a    *)
(* device it keeps, so that exactly 5 active devices are left.               *)
C11_DeletesOldestBeyondFive ==
    response.op = "enforce_session_limits"
    => LET before == response.before
           was_active == {d \in before : d.user = response.user /\ d.is_active}
           n == Cardinality(was_active)
           deleted == before \ trusted_devices
           kept == was_active \ deleted
       IN  /\ trusted_devices \subseteq before
           /\ n <= MAX_SESSIONS => deleted = {}
           /\ n > MAX_SESSIONS
                => /\ deleted \subseteq was_active
                   /\ Cardinality(deleted) = n - MAX_SESSIONS
                   /\ Cardinality(kept) = MAX_SESSIONS
                   /\ \A d \in deleted, k \in kept : d.last_login <= k.last_login

(* The call has just deleted two of seven active devices. *)
C11_Witness ==
    /\ response.op = "enforce_session_limits"
    /\ Cardinality({d \in response.before : d.user = response.user /\ d.is_active}) = 7
    /\ Cardinality(response.before \ trusted_devices) = 2
    /\ \E d \in response.before \ trusted_devices, k \in trusted_devices :
          k.user = response.user /\ k.is_active /\ d.last_login < k.last_login

-----------------------------------------------------------------------------
(* Properties of the trusted devices of one account (SpecDevices) *)

(* The rows of the table with the given device_id. *)
RowsWithId(rows, id) == {d \in rows : d.device_id = id}

(* The cookie names an active trusted device of the account whose expiry has *)
(* passed.                                                                   *)
PresentsExpiredDevice(user) ==
    \E d \in trusted_devices :
        /\ d.device_id = response'.req.trusted_device
        /\ d.user = user
        /\ d.is_active
        /\ now > d.expires_at

(* C12: a login whose cookie matches an active trusted device of the user    *)
(* with now > expires_at deletes that row and goes on to OTP generation (it  *)
(* answers what otp_generator answers, never a bypass, and issues no         *)
(* tokens); a device_id with no row never gets a row again, and a login      *)
(* presenting a device_id with no row is never a bypass.                     *)
C12_ExpiredLookupDeletesAndMisses ==
    [][ LET user == response'.req.email
            id == response'.req.trusted_device
        IN  /\ response'.op = "login" /\ ReadyAccount /\ RightPassword
               /\ PresentsExpiredDevice(user)
                 => /\ response'.outcome \in {"OTP_REQUIRED", "RATE_LIMITED", "LOCKED"}
                    /\ ~response'.tokens
                    /\ trusted_devices' = trusted_devices \ RowsWithId(trusted_devices, id)
                    /\ user \in DOMAIN otp_devices'
            /\ \A i \in 1..next_device_id :
                 RowsWithId(trusted_devices, i) = {} => RowsWithId(trusted_devices', i) = {}
            /\ response'.op = "login" /\ RowsWithId(trusted_devices, id) = {}
                 => response'.outcome # "TRUSTED_BYPASS" /\ trusted_devices' = trusted_devices ]_vars

(* A login presenting the identifier of device 1, past its expiry, has just  *)
(* been answered with an OTP, and the row is gone.                           *)
C12_Witness ==
    /\ LoginAnswered
    /\ response.req.trusted_device = 1
    /\ next_device_id >= 1
    /\ RowsWithId(trusted_devices, 1) = {}
    /\ response.outcome = "OTP_REQUIRED"
    /\ now > TRUSTED_DAYS_SECONDS
    /\ otp_devices[response.req.email].otp_created_at = now

-----------------------------------------------------------------------------
(* More properties of the OTP device (SpecOtp) *)

(* C13: a mismatched verify_token made once lock_until has elapsed, against  *)
(* a code that is still valid, is rejected as INVALID, leaves                *)
(* failed_attempts = 1 and does not lock the device again.                   *)
C13_MismatchAfterLockElapsed ==
    [][ ( /\ response'.op = "verify_token"
          /\ Dev.lock_until # None
          /\ now >= Dev.lock_until
          /\ Outstanding
          /\ response'.token # hist.last_code )
          => /\ response'.result.kind = "INVALID"
             /\ Dev'.failed_attempts = 1
             /\ (Dev'.lock_until = None \/ Dev'.lock_until <= now) ]_vars

-----------------------------------------------------------------------------
(* Properties of concurrent verify-otp requests (SpecRace) *)

RaceDev == otp_devices["alice"]

(* The workers have answered their requests. *)
RaceOver == in_flight = <<>> /\ \A w \in Workers : hist.handled[w] = RequestsPerWorker

(* C14: when two verify_token calls with mismatching codes have run          *)
(* concurrently against a device that had failed_attempts = N, the stored    *)
(* count is N + 2, or the device is locked.                                  *)
C14_NoLostFailedAttempt ==
    ( /\ RaceOver
      /\ hist.mismatches = 2 )
      => \/ RaceDev.failed_attempts
              = hist.start.otp_devices["alice"].failed_attempts + 2
         \/ (RaceDev.lock_until # None /\ now < RaceDev.lock_until)

(* C15: at most one verification of a generated code succeeds: the requests  *)
(* that submitted it are not both answered with tokens and a trusted device. *)
C15_AtMostOneSuccessPerCode ==
    /\ hist.sessions <= 1
    /\ Cardinality(trusted_devices) <= Cardinality(hist.start.trusted_devices) + 1

(* C16: when the concurrent verifications have succeeded, the user has no    *)
(* more active devices than the same number of verifications leave when      *)
(* each enforces the limit and inserts before the next one starts.           *)
C16_NoMoreDevicesThanSerially ==
    RaceOver
    => \E rows \in AdmittedSerially(hist.start.trusted_devices, "alice", hist.sessions,
                                    now, Cardinality(hist.start.trusted_devices) + 1) :
          Cardinality(ActiveDevices(trusted_devices, "alice"))
              <= Cardinality(ActiveDevices(rows, "alice"))


(* The attempts recorded against ip: its counter, if it has not timed out. *)
RecordedAttempts(ip) ==
    IF CacheHas(cache, now, AttemptsKey(ip)) THEN cache[AttemptsKey(ip)].value ELSE 0

(* The login answered in response' reached the view with credentials that   *)
(* authenticate rejects.                                                     *)
InvalidCredentials ==
    \/ response'.req.password # users[response'.req.email].password
    \/ ~users[response'.req.email].is_active

(* C17: a login with invalid credentials that reaches the view records a     *)
(* failure against the client IP (its attempt counter goes up by one, or at  *)
(* the fifth attempt the IP becomes permanently blocked and the counter is   *)
(* cleared) and is answered 401 UNAUTHORIZED with the one message, no tokens *)
(* and no OTP, whether or not the failure caused the IP to become blocked.   *)
C17_InvalidLoginRecordsFailureAndIs401 ==
    [][ ( /\ LoginStep
          /\ ~DbBlocked(blocked_ips, response'.req.ip)
          /\ InvalidCredentials )
        => LET ip == response'.req.ip
               n == RecordedAttempts(ip)
           IN  /\ response'.status = 401
               /\ response'.outcome = "UNAUTHORIZED"
               /\ ~response'.tokens
               /\ response'.otp_code = None
               /\ IF n + 1 >= MAX_ATTEMPTS
                  THEN /\ DbBlocked(blocked_ips', ip)
                       /\ AttemptsKey(ip) \notin DOMAIN cache'
                  ELSE /\ blocked_ips' = blocked_ips
                       /\ CacheHas(cache', now, AttemptsKey(ip))
                       /\ cache'[AttemptsKey(ip)].value = n + 1
               /\ UNCHANGED <<users, otp_devices, trusted_devices>> ]_vars

(* A login with a wrong password has just been answered 401 and its failure  *)
(* left the IP permanently blocked.                                          *)
C17_Witness ==
    /\ LoginAnswered
    /\ response.status = 401
    /\ response.outcome = "UNAUTHORIZED"
    /\ response.req.password # users[response.req.email].password
    /\ DbBlocked(blocked_ips, response.req.ip)
    /\ AttemptsKey(response.req.ip) \notin DOMAIN cache


(* C18: a login whose credentials are accepted (OTP_REQUIRED or              *)
(* TRUSTED_BYPASS) resets the attempt counter of its IP, so the failures     *)
(* recorded before it no longer count toward the threshold.                  *)
C18_AcceptedLoginResetsCounter ==
    ( /\ LoginAnswered
      /\ response.outcome \in {"OTP_REQUIRED", "TRUSTED_BYPASS"} )
      => RecordedAttempts(response.req.ip) = 0


-----------------------------------------------------------------------------
(* Properties of the trusted-device bypass (SpecDevices, SpecSessions) *)

(* The login just answered was let in on its trusted device. *)
BypassAnswered == LoginAnswered /\ response.outcome = "TRUSTED_BYPASS"

(* C19: after a TRUSTED_BYPASS login the stored TrustedDevice row holds the  *)
(* browser, OS, device label and IP address of that login request.           *)
C19_BypassPersistsMetadata ==
    BypassAnswered
    => \E d \in trusted_devices :
          /\ d.user = response.req.email
          /\ d.device_id = response.req.trusted_device
          /\ d.browser = parse_user_agent(response.req.ua).browser
          /\ d.os = parse_user_agent(response.req.ua).os
          /\ d.device = parse_user_agent(response.req.ua).device
          /\ d.ip_address = response.req.ip


(* C20: renew, as invoked on a trusted-bypass login, persists the new expiry *)
(* (now + 30 days) and an updated last_login on the device row, so that the  *)
(* device ranks as the most recently logged in when enforce_session_limits   *)
(* orders the rows by last_login.                                            *)
C20_RenewPersistsExpiryAndLastLogin ==
    BypassAnswered
    => \E d \in trusted_devices :
          /\ d.user = response.req.email
          /\ d.device_id = response.req.trusted_device
          /\ d.expires_at = now + TRUSTED_DAYS_SECONDS
          /\ d.last_login = now
          /\ \A e \in ActiveDevices(trusted_devices, d.user) : e.last_login <= d.last_login


-----------------------------------------------------------------------------
(* Properties of the statuses and outcomes of the views (Spec) *)

(* A verify-otp request from a detectable IP, not throttled, has just been   *)
(* answered.                                                                 *)
VerifyAnswered ==
    /\ response.op = "verify_otp"
    /\ response.req.ip \in IPs
    /\ response.outcome # "THROTTLED"

(* C21: a verify-otp request rejected because the OTP device is locked (an   *)
(* active lock, or the mismatch that makes failed_attempts reach the         *)
(* maximum) is answered 423, and one rejected as invalid, expired or already *)
(* used is answered 400.                                                     *)
C21_LockedVerificationIs423 ==
    VerifyAnswered
    => /\ response.outcome = "LOCKED" => response.status = 423
       /\ response.outcome \in {"INVALID", "EXPIRED", "ALREADY_USED"}
            => response.status = 400


(* The login answered in response' has the right password for an account in  *)
(* good standing and an unblocked IP, and its cookie names no trusted device *)
(* of the account that is active and not expired.                            *)
ValidLoginMiss ==
    /\ LoginStep
    /\ ReadyAccount
    /\ RightPassword
    /\ ~PresentsTrustedDevice(response'.req.email)

(* C22: generate_token checks the cooldown before the lock. A login with     *)
(* valid credentials and a trusted-device miss is answered RATE_LIMITED      *)
(* (429) while now < next_allowed_request_time, even when the device is also *)
(* locked, and LOCKED (423) when the cooldown has passed and lock_until has  *)
(* not elapsed; in neither case is it answered OTP_REQUIRED, and no code is  *)
(* handed over.                                                              *)
C22_CooldownCheckedBeforeLock ==
    [][ ( /\ ValidLoginMiss
          /\ response'.req.email \in DOMAIN otp_devices )
        => LET d == otp_devices[response'.req.email]
               cooling == d.next_allowed_request_time # None
                            /\ now < d.next_allowed_request_time
               locked == d.lock_until # None /\ now < d.lock_until
           IN  /\ cooling
                   => /\ response'.status = 429
                      /\ response'.outcome = "RATE_LIMITED"
               /\ (~cooling /\ locked)
                   => /\ response'.status = 423
                      /\ response'.outcome = "LOCKED"
               /\ (cooling \/ locked)
                   => /\ response'.outcome # "OTP_REQUIRED"
                      /\ ~response'.tokens
                      /\ response'.otp_code = None
                      /\ otp_devices' = otp_devices ]_vars

(* A login with the right password and no trusted device has just been       *)
(* answered 429 while the account's OTP device is both cooling down and      *)
(* locked.                                                                   *)
C22_Witness ==
    /\ LoginAnswered
    /\ response.status = 429
    /\ response.req.password = users[response.req.email].password
    /\ response.req.trusted_device = NoDeviceId
    /\ otp_devices[response.req.email].lock_until # None
    /\ now < otp_devices[response.req.email].lock_until
    /\ now < otp_devices[response.req.email].next_allowed_request_time


-----------------------------------------------------------------------------
(* Properties of concurrent blocklist lookups (SpecLookups) *)

(* C23: for each IP the BlockedIP table is queried at most once per cache    *)
(* window, whatever the number of requests and their interleaving: after a   *)
(* cache miss and its query, no other query is made for that IP until the    *)
(* cached result expires.                                                    *)
C23_OneStoreLookupPerWindow ==
    \A ip \in IPs : hist.lookups[ip] <= 1


-----------------------------------------------------------------------------
(* Properties of the account checks of Login (SpecAccounts) *)

(* The login answered in response' came from an unblocked IP with the        *)
(* account's password.                                                       *)
RightPasswordLogin ==
    /\ LoginStep
    /\ ~DbBlocked(blocked_ips, response'.req.ip)
    /\ RightPassword

(* No failure is recorded against ip: its counter and the blocklist stay. *)
NoFailureRecorded(ip) ==
    /\ blocked_ips' = blocked_ips
    /\ AttemptsKey(ip) \in DOMAIN cache' <=> AttemptsKey(ip) \in DOMAIN cache
    /\ AttemptsKey(ip) \in DOMAIN cache => cache'[AttemptsKey(ip)] = cache[AttemptsKey(ip)]

(* C24: a login with the right password for an account that must change its *)
(* password ends in PASSWORD_RESET_REQUIRED whatever the account's active    *)
(* flag and the trusted-device identifier are: no session, no OTP, no        *)
(* trusted device renewed, no failure recorded for the IP.                   *)
C24_PasswordResetWhateverActiveFlag ==
    [][ ( /\ RightPasswordLogin
          /\ ~users[response'.req.email].has_changed_password )
        => /\ response'.status = 200
           /\ response'.outcome = "PASSWORD_RESET_REQUIRED"
           /\ ~response'.tokens
           /\ response'.otp_code = None
           /\ UNCHANGED <<users, otp_devices, trusted_devices>>
           /\ NoFailureRecorded(response'.req.ip) ]_vars


(* C25: a login with the right password for a deactivated account that has   *)
(* changed its password records a failure for the client IP and is answered  *)
(* 403 FORBIDDEN, also when it presents a valid trusted device of the        *)
(* account; no session is issued and no OTP is generated.                    *)
C25_InactiveAccountForbidden ==
    [][ ( /\ RightPasswordLogin
          /\ users[response'.req.email].has_changed_password
          /\ ~users[response'.req.email].is_active )
        => /\ response'.status = 403
           /\ response'.outcome = "SUSPENDED"
           /\ ~response'.tokens
           /\ response'.otp_code = None
           /\ UNCHANGED <<otp_devices, trusted_devices>>
           /\ ~NoFailureRecorded(response'.req.ip) ]_vars


(* C26: TRUSTED_BYPASS is granted to a user only if, at the lookup, a        *)
(* TrustedDevice row with the presented identifier exists that belongs to    *)
(* the user, is active and is not expired; with a deactivated device, an     *)
(* unknown identifier or another user's identifier the login takes the OTP   *)
(* path, and the rows of other users are left as they were.                  *)
C26_BypassOnlyForOwnLiveDevice ==
    [][ /\ ( LoginStep /\ response'.outcome = "TRUSTED_BYPASS" )
            => \E d \in trusted_devices :
                  /\ d.device_id = response'.req.trusted_device
                  /\ d.user = response'.req.email
                  /\ d.is_active
                  /\ now <= d.expires_at
        /\ ( /\ RightPasswordLogin
             /\ ReadyAccount
             /\ ~PresentsTrustedDevice(response'.req.email) )
            => /\ response'.outcome \in {"OTP_REQUIRED", "RATE_LIMITED", "LOCKED"}
               /\ ~response'.tokens
               /\ { d \in trusted_devices' : d.user # response'.req.email }
                    = { d \in trusted_devices : d.user # response'.req.email } ]_vars

(* A login of one user presenting the identifier of another user's device,   *)
(* active and not expired, has just been sent to the OTP path, and that row  *)
(* is still there.                                                           *)
C26_Witness ==
    /\ LoginAnswered
    /\ response.outcome = "OTP_REQUIRED"
    /\ \E d \in trusted_devices :
          /\ d.device_id = response.req.trusted_device
          /\ d.user # response.req.email
          /\ d.is_active
          /\ now <= d.expires_at


(* The step is a verify-otp request that reached the view, answered in       *)
(* response'.                                                                *)
VerifyStep ==
    /\ response'.op = "verify_otp"
    /\ response'.req.ip \in IPs
    /\ ~DbBlocked(blocked_ips, response'.req.ip)
    /\ response'.outcome # "THROTTLED"

(* verify_token would succeed: the submitted code is the stored one, not     *)
(* expired, not used, and the device is not locked.                          *)
VerifiesStoredCode(user) ==
    /\ SubmitsStoredCode(user)
    /\ ~otp_devices[user].used
    /\ otp_devices[user].lock_until = None \/ now >= otp_devices[user].lock_until

(* C27: access and refresh tokens are issued only by a TRUSTED_BYPASS login  *)
(* and by a verify-otp request whose verify_token succeeded.  A login with   *)
(* valid credentials and a trusted-device miss ends in OTP_REQUIRED,         *)
(* RATE_LIMITED or LOCKED without tokens, and a failed verification returns  *)
(* no tokens and creates no trusted device.                                  *)
C27_TokensOnlyByBypassOrVerification ==
    [][ /\ response'.op # "none" /\ response'.tokens
            => \/ /\ response'.op = "login"
                  /\ response'.outcome = "TRUSTED_BYPASS"
                  /\ PresentsTrustedDevice(response'.req.email)
                  /\ RightPassword
               \/ /\ response'.op = "verify_otp"
                  /\ VerifiesStoredCode(response'.req.email)
        /\ ValidLoginMiss
            => /\ response'.outcome \in {"OTP_REQUIRED", "RATE_LIMITED", "LOCKED"}
               /\ ~response'.tokens
        /\ ( VerifyStep /\ ~VerifiesStoredCode(response'.req.email) )
            => /\ response'.status = 400
               /\ ~response'.tokens
               /\ response'.trusted_device_id = NoDeviceId
               /\ UNCHANGED <<trusted_devices, next_device_id>> ]_vars

(* A verify-otp request with a code other than the stored one has just been  *)
(* refused without tokens, the user having no trusted device.                *)
C27_Witness ==
    /\ VerifyAnswered
    /\ response.outcome = "INVALID"
    /\ ~response.tokens
    /\ otp_devices[response.req.email].otp_encrypted # NoCiphertext
    /\ otp_devices[response.req.email].otp_encrypted # Encrypt(DJANGO_SECRET_KEY, response.req.otp_code)
    /\ trusted_devices = {}


-----------------------------------------------------------------------------
(* Properties of what the device methods write (SpecOtp) *)

(* Dev is within its cooldown. *)
Cooling == Dev.next_allowed_request_time # None /\ now < Dev.next_allowed_request_time

(* C28: a generate_token the cooldown or the lock rejects persists nothing:  *)
(* the whole row is as it was.  One that succeeds writes the new ciphertext  *)
(* together with expiry, used flag, failed_attempts, lock_until,             *)
(* last_request_time and next_allowed_request_time in the one update.        *)
C28_RejectedGenerationWritesNothing ==
    [][ response'.op = "generate_token"
        => LET d2 == otp_devices'[OtpUser]
           IN  /\ (Cooling \/ Locked)
                   => /\ response'.result.error
                      /\ response'.result.kind \in {"RATE_LIMITED", "LOCKED"}
                      /\ d2 = Dev
               /\ ~(Cooling \/ Locked)
                   => /\ ~response'.result.error
                      /\ d2.otp_encrypted = Encrypt(DJANGO_SECRET_KEY, response'.result.otp_code)
                      /\ d2.otp_created_at = now
                      /\ d2.otp_expiry = now + CODE_VALID_FOR_SECONDS
                      /\ ~d2.used
                      /\ d2.failed_attempts = 0
                      /\ d2.lock_until = None
                      /\ d2.last_request_time = now
                      /\ d2.next_allowed_request_time >= now + BASE_COOLDOWN
                      /\ d2.max_failed_attempts = Dev.max_failed_attempts
                      /\ d2.cooldown_multiplier = Dev.cooldown_multiplier ]_vars

(* generate_token has just been rejected for the lock, with failed attempts  *)
(* and a ciphertext stored.                                                  *)
C28_Witness ==
    /\ response.op = "generate_token"
    /\ response.result.kind = "LOCKED"
    /\ Dev.failed_attempts > 0
    /\ Dev.otp_encrypted # NoCiphertext
    /\ Dev.last_request_time < now


(* C29: verify_token checks the lock, the missing code, the expiry and the   *)
(* used flag, in that order, before it compares the codes, and each of these *)
(* rejections leaves the row as it was: a submission against an expired code *)
(* is rejected as EXPIRED whether or not it matches, and failed_attempts is  *)
(* not incremented.  A stored code the cipher cannot decrypt (the key was    *)
(* changed or unset since it was generated) is rejected as INTERNAL, after   *)
(* those checks and before any comparison, and nothing is written.           *)
C29_ChecksBeforeCompareWriteNothing ==
    [][ response'.op = "verify_token"
        => LET kind == response'.result.kind
               same == otp_devices'[OtpUser] = Dev
           IN  IF Locked
               THEN kind = "LOCKED" /\ same
               ELSE IF Dev.otp_encrypted = NoCiphertext
               THEN kind = "INVALID" /\ same
               ELSE IF Dev.otp_expiry # None /\ now > Dev.otp_expiry
               THEN kind = "EXPIRED" /\ same
               ELSE IF Dev.used
               THEN kind = "ALREADY_USED" /\ same
               ELSE IF ~CanDecrypt(DJANGO_SECRET_KEY, Dev.otp_encrypted)
               THEN kind = "INTERNAL" /\ same
               ELSE kind \in {"VERIFIED", "INVALID", "LOCKED"} /\ ~same ]_vars

(* A wrong code submitted against an expired code has just been rejected as  *)
(* EXPIRED, the device not being locked.                                     *)
C29_Witness ==
    /\ response.op = "verify_token"
    /\ response.result.kind = "EXPIRED"
    /\ Dev.otp_encrypted # Encrypt(DJANGO_SECRET_KEY, response.token)
    /\ ~Locked


(* C30: a locked device becomes usable again.  The lock and the cooldown end *)
(* within a bounded time of now, and once both lock_until and                *)
(* next_allowed_request_time have passed, the next generate_token succeeds,  *)
(* clears lock_until, resets failed_attempts to 0 and stores a fresh code.   *)
C30_LockedDeviceRecovers ==
    /\ [] /\ Dev.lock_until # None => Dev.lock_until <= now + MAX_LOCK_TIME
          /\ Dev.next_allowed_request_time # None
               => Dev.next_allowed_request_time
                    <= now + BASE_COOLDOWN * Pow(Dev.cooldown_multiplier,
                                                 Dev.max_failed_attempts)
                           + RANDOM_WAIT_MAX
    /\ [][ ( /\ response'.op = "generate_token"
             /\ Dev.lock_until # None
             /\ now >= Dev.lock_until
             /\ ~Cooling )
           => LET d2 == otp_devices'[OtpUser]
              IN  /\ ~response'.result.error
                  /\ d2.lock_until = None
                  /\ d2.failed_attempts = 0
                  /\ d2.otp_encrypted = Encrypt(DJANGO_SECRET_KEY, response'.result.otp_code)
                  /\ ~d2.used
                  /\ d2.otp_expiry = now + CODE_VALID_FOR_SECONDS ]_vars

(* generate_token has just succeeded on a device whose lock had elapsed: the *)
(* lock is cleared and the fresh code is outstanding.                        *)
C30_Witness ==
    /\ response.op = "generate_token"
    /\ ~response.result.error
    /\ hist.unlocked
    /\ Dev.lock_until = None
    /\ Dev.failed_attempts = 0
    /\ Outstanding


-----------------------------------------------------------------------------
(* Properties of the device over its calls (SpecOtp) *)

(* C31: successful generations on a device are separated by at least the     *)
(* cooldown.  last_request_time is the time of the latest successful         *)
(* generation; no generate_token succeeds before it plus 60 s plus the       *)
(* jitter of at least 5 s, and next_allowed_request_time is never earlier.   *)
C31_GenerationsSeparatedByCooldown ==
    /\ [] ( Dev.last_request_time # None
            => Dev.next_allowed_request_time
                 >= Dev.last_request_time + BASE_COOLDOWN + RANDOM_WAIT_MIN )
    /\ [][ ( /\ response'.op = "generate_token"
             /\ Dev.last_request_time # None
             /\ now < Dev.last_request_time + BASE_COOLDOWN + RANDOM_WAIT_MIN )
           => /\ response'.result.error
              /\ response'.result.kind = "RATE_LIMITED"
              /\ otp_devices'[OtpUser].last_request_time = Dev.last_request_time ]_vars

(* generate_token has just been rejected 60 s after the latest successful    *)
(* generation: the base cooldown has passed, the jitter has not.             *)
C31_Witness ==
    /\ response.op = "generate_token"
    /\ response.result.kind = "RATE_LIMITED"
    /\ Dev.last_request_time # None
    /\ now = Dev.last_request_time + BASE_COOLDOWN


-----------------------------------------------------------------------------
(* Properties of the attempt counter and the blocklist (SpecIp) *)

(* What is_ip_in_db_blocklist reports for ip: the cached answer while there  *)
(* is one, the table otherwise.                                              *)
ReportedBlocked(ip) ==
    IF CacheHas(cache, now, BlockedKey(ip))
    THEN cache[BlockedKey(ip)].value
    ELSE DbBlocked(blocked_ips, ip)

(* The step is a block_ip call for a detected IP, answered in response'. *)
BlockIpStep == response'.op = "block_ip" /\ response'.ip \in IPs

(* C32: block_ip for an IP that is_ip_in_db_blocklist already reports as     *)
(* blocked short-circuits: it answers 403, neither creates nor increments    *)
(* the attempt counter, and does not write the BlockedIP table.              *)
C32_BlockedIpShortCircuits ==
    [][ ( BlockIpStep /\ ReportedBlocked(response'.ip) )
        => LET key == AttemptsKey(response'.ip)
           IN  /\ response'.status = 403
               /\ blocked_ips' = blocked_ips
               /\ key \in DOMAIN cache' <=> key \in DOMAIN cache
               /\ key \in DOMAIN cache => cache'[key] = cache[key] ]_vars

(* block_ip has just answered 403 for an IP that was blocked in an earlier   *)
(* counter window: the call found it blocked.                                *)
C32_Witness ==
    /\ response.op = "block_ip"
    /\ response.ip \in IPs
    /\ response.status = 403
    /\ DbBlocked(blocked_ips, response.ip)
    /\ hist.window_end[response.ip] # None
    /\ now >= hist.window_end[response.ip]
    /\ AttemptsKey(response.ip) \notin DOMAIN cache


-----------------------------------------------------------------------------
(* Properties of the failures that count toward a block (Spec) *)

(* C33: a force-change-password request with wrong current credentials that  *)
(* reaches the view records a failure for the client IP like a failed login  *)
(* does: the attempt counter of the IP goes up by one, or at the fifth       *)
(* failure the IP becomes permanently blocked.                               *)
C33_FailedPasswordChangeCounts ==
    [][ ( /\ response'.op = "force_change_password"
          /\ response'.req.ip \in IPs
          /\ ~DbBlocked(blocked_ips, response'.req.ip)
          /\ response'.outcome # "THROTTLED"
          /\ response'.req.current_password # users[response'.req.email].password )
        => LET ip == response'.req.ip
               n == RecordedAttempts(ip)
           IN  IF n + 1 >= MAX_ATTEMPTS
               THEN DbBlocked(blocked_ips', ip)
               ELSE /\ CacheHas(cache', now, AttemptsKey(ip))
                    /\ cache'[AttemptsKey(ip)].value = n + 1 ]_vars


-----------------------------------------------------------------------------
(* Properties of block_ip beside concurrent lookups (SpecBlockRace) *)

(* C34: once block_ip has reported an IP as blocked, every                   *)
(* is_ip_in_db_blocklist call that starts afterwards returns true, whatever  *)
(* lookups were in flight and whatever cache entries expire: no negative     *)
(* cache entry hides the block.                                              *)
C34_BlockNeverHidden ==
    \A ip \in hist.reported : ReportedBlocked(ip)


-----------------------------------------------------------------------------
(* Properties of concurrent block_ip calls (SpecCountRace) *)

(* C35: attempt counting is atomic per IP.  When no call is in flight, the   *)
(* counter of an unblocked IP equals the failures recorded for it in the     *)
(* window, and five recorded failures have produced the block.               *)
C35_NoLostAttempt ==
    in_flight = <<>>
    => \A ip \in IPs :
          IF hist.recorded[ip] >= MAX_ATTEMPTS
          THEN DbBlocked(blocked_ips, ip)
          ELSE /\ ~DbBlocked(blocked_ips, ip)
               /\ RecordedAttempts(ip) = hist.recorded[ip]


(* C36: an IP is blocked only by five failures recorded within one window of *)
(* its attempt counter.  Whenever block_ip answers not-blocked the counter   *)
(* is between 1 and 4; the counter expires 15 minutes after the first        *)
(* failure of its window, increments not extending it; and the call that     *)
(* writes the block is the fifth of its window, made before the window ends. *)
C36_BlockOnlyByFiveInOneWindow ==
    /\ [] /\ ( /\ response.op = "block_ip"
               /\ response.ip \in IPs
               /\ response.status = Proceed )
             => RecordedAttempts(response.ip) \in 1..(MAX_ATTEMPTS - 1)
          /\ \A ip \in IPs :
                CacheHas(cache, now, AttemptsKey(ip))
                => /\ cache[AttemptsKey(ip)].expires = hist.window_end[ip]
                   /\ cache[AttemptsKey(ip)].value = hist.streak[ip]
    /\ [][ ( /\ BlockIpStep
             /\ ~DbBlocked(blocked_ips, response'.ip)
             /\ DbBlocked(blocked_ips', response'.ip) )
           => /\ hist'.streak[response'.ip] = MAX_ATTEMPTS
              /\ RecordedAttempts(response'.ip) = MAX_ATTEMPTS - 1
              /\ now < hist.window_end[response'.ip] ]_vars

(* block_ip has just answered not-blocked for the fourth failure of a        *)
(* window that began earlier: the counter still expires 15 minutes after the *)
(* first.                                                                    *)
C36_Witness ==
    /\ response.op = "block_ip"
    /\ response.ip \in IPs
    /\ response.status = Proceed
    /\ RecordedAttempts(response.ip) = MAX_ATTEMPTS - 1
    /\ cache[AttemptsKey(response.ip)].expires < now + REDIS_EXPIRE_SECONDS


-----------------------------------------------------------------------------
(* Invariants of the device row (SpecOtp) *)

(* C37: whenever used is true the stored ciphertext is empty: success sets   *)
(* used and clears the ciphertext in one update, generation stores a         *)
(* ciphertext and used = false in one update.  So verify_token never answers *)
(* ALREADY_USED, and a submission made after a success, the verified code    *)
(* included, is rejected as INVALID and writes nothing.                      *)
C37_UsedMeansNoCiphertext ==
    /\ [] /\ Dev.used => Dev.otp_encrypted = NoCiphertext
          /\ response.op = "verify_token" => response.result.kind # "ALREADY_USED"
    /\ [][ response'.op = "verify_token"
           => /\ ~response'.result.error
                  => /\ otp_devices'[OtpUser].used
                     /\ otp_devices'[OtpUser].otp_encrypted = NoCiphertext
              /\ Dev.used
                  => /\ response'.result.error
                     /\ response'.result.kind = "INVALID"
                     /\ otp_devices'[OtpUser] = Dev ]_vars

(* The code that was verified has just been submitted again and rejected as  *)
(* INVALID.                                                                  *)
C37_Witness ==
    /\ response.op = "verify_token"
    /\ response.result.kind = "INVALID"
    /\ hist.consumed
    /\ Dev.used
    /\ response.token = hist.last_code


(* C38: lock_until is set if and only if failed_attempts has reached         *)
(* max_failed_attempts.  The mismatch that reaches the maximum sets the      *)
(* lock; a successful verification and a generation that clears an elapsed   *)
(* lock reset the lock and the count together.                               *)
C38_LockSetIffMaxFailures ==
    /\ [] /\ Dev.max_failed_attempts = DEFAULT_MAX_FAILED_ATTEMPTS
          /\ (Dev.lock_until # None) <=> (Dev.failed_attempts >= Dev.max_failed_attempts)
    /\ [][ LET d2 == otp_devices'[OtpUser]
           IN  /\ (Dev.lock_until = None /\ d2.lock_until # None)
                   => /\ response'.op = "verify_token"
                      /\ response'.result.kind = "LOCKED"
                      /\ Dev.failed_attempts = Dev.max_failed_attempts - 1
                      /\ d2.failed_attempts = d2.max_failed_attempts
               /\ (Dev.lock_until # None /\ d2.lock_until = None)
                   => /\ ~response'.result.error
                      /\ d2.failed_attempts = 0 ]_vars

(* generate_token has just cleared an elapsed lock and the count with it,    *)
(* on a device that had reached the maximum.                                 *)
C38_Witness ==
    /\ response.op = "generate_token"
    /\ ~response.result.error
    /\ hist.unlocked
    /\ hist.mismatch_run = 0
    /\ Dev.lock_until = None
    /\ Dev.failed_attempts = 0
    /\ Dev.last_request_time = now


(* C39: a code that is outstanding when the device becomes locked is never   *)
(* verified afterwards and gets no further counted guess.  lock_until stays  *)
(* set, and the ciphertext stays the one of that code, until a generation or *)
(* a success replaces them; so a verify_token against a row with lock_until  *)
(* set and a ciphertext stored is rejected and leaves failed_attempts as it  *)
(* was, and failed_attempts never exceeds max_failed_attempts.               *)
C39_LockedCodeNeverComparedAgain ==
    /\ [] (Dev.failed_attempts <= Dev.max_failed_attempts)
    /\ [][ ( /\ response'.op = "verify_token"
             /\ Dev.lock_until # None
             /\ Dev.otp_encrypted # NoCiphertext )
           => /\ response'.result.error
              /\ response'.result.kind \in {"LOCKED", "EXPIRED"}
              /\ otp_devices'[OtpUser] = Dev ]_vars


-----------------------------------------------------------------------------
(* Properties of suspended accounts (SpecSuspend) *)

(* C40: access and refresh tokens are never issued to an account that is     *)
(* inactive when they are issued, by login or by verify-otp, also when the   *)
(* account was suspended after its code was generated.                       *)
C40_NoTokensForInactiveAccount ==
    [][ ( /\ response'.op \in {"login", "verify_otp"}
          /\ response'.tokens )
        => users[response'.req.email].is_active ]_vars

=============================================================================
